---- MODULE Spec2Model ----
(***************************************************************************)
(* Aggregation and caching engine of gonka-tracker                         *)
(* (backend/service.py, backend/database.py, backend/app.py).              *)
(*                                                                         *)
(* The chain (the upstream nodes) is the environment: it produces blocks,  *)
(* starts epochs and settles rewards.  The service runs coroutines on one  *)
(* event loop: a coroutine runs without interleaving between two awaits,   *)
(* so every action below is one awaited operation (an upstream call or a   *)
(* cache-store statement) followed by the synchronous code up to the next  *)
(* await.  An upstream call either answers from the chain state of that    *)
(* instant or raises (all base URLs failed).                               *)
(***************************************************************************)
EXTENDS Integers, Sequences, FiniteSets, TLC

\* ---------------------------------------------------------------- bounds
MaxEpoch == 3
MaxBlocks == 3
MaxTime == 1
MaxCalls == 2
MaxPolls == 2
MaxTotalsPolls == 2
MaxBatches == 2
MaxCount == 40
MaxUrls == 3
MaxRuns == 2

\* ------------------------------------------------------ program constants
CanonicalOffset == 10
UgnkPerGnk == 1000000000
PollWindow == 5

\* Python's None / "no row".
None == -1

\* if ... cache_age < 300: the age below which the published response is served
CacheTtl == 300

\* the largest poc_weight of the payloads
MaxWeight == 2

\* ------------------------------------------------------------ environment
BlockStep == CanonicalOffset
GenesisHeight == 10 * BlockStep
MinEpochLength == 2 * BlockStep
PocOffset == BlockStep

Epochs == 1..MaxEpoch
Participants == <<"p1", "p2">>
RequestHeights == {GenesisHeight + k * BlockStep : k \in (0 - 1)..MaxBlocks}

ParticipantIds == {Participants[i] : i \in 1..Len(Participants)}

\* the participants_stats lists handed to save_stats_batch, as lists of indexes
StatsBatches == {<<"p1">>, <<"p1", "p2">>, <<"p2", "p1">>}

\* the height the batches are saved at
BatchHeight == GenesisHeight + BlockStep

\* the indexes the chain knows: the participants and one that is never active
ChainIndexes == ParticipantIds \cup {"p0"}

\* the lists without repetition over a set of indexes
RECURSIVE Lists(_)
Lists(S) ==
    {<<>>} \cup UNION {{<<x>> \o l : l \in Lists(S \ {x})} : x \in S}

\* active_participants.participants of the epoch payload, as the list of indexes
EpochPayloads == Lists(ParticipantIds) \ {<<>>}

\* the "participant" list of the all-participants payload, as the list of indexes
AllPayloads == Lists(ChainIndexes)

\* the grants authz_grants(participant) answers with: p1 has one warm key, p2 none
AuthzGrants(p) == IF p = "p1" THEN {"k1"} ELSE {}

\* the inference lists a caller hands to save_participant_inferences_batch, as
\* sets of inference ids
InferenceLists == {{}, {1}, {1, 2}}

\* rewarded_coins (ugnk) the chain reports for a participant of a settled epoch
RewardedCoins(p) == IF p = "p1" THEN 400000000 ELSE UgnkPerGnk

\* ---------------------------------------------------------------- threads
PollTask == "poll"
TotalsTask == "tot"
Readers == {"r1", "r2"}
BgTasks == {"b1"}
DetailReaders == {"d1"}
Threads == {PollTask, TotalsTask} \cup Readers \cup BgTasks \cup DetailReaders

VARIABLES
    \* chain (upstream) state
    latest_epoch, chain_height, effective_block_height, next_poc_start, settled, now,
    \* cache store (database.py tables)
    inference_stats, epoch_status, epoch_total_rewards,
    \* InferenceService fields
    current_epoch_id, current_epoch_data, last_fetch_time,
    \* coroutines: position and frames
    pc, cur, hist, calc, tot,
    \* epochs whose _calculate_and_cache_total_rewards task was created and has not started
    dispatched,
    \* history: executions of mark_epoch_finished per epoch, API calls made, task iterations
    mark_count, calls, ticks,
    \* cache store (database.py tables) read and written per participant
    participant_warm_keys, participant_inferences,
    \* get_participant_details frames; the last save_participant_inferences_batch call
    det, inf_call,
    \* history: the (epoch, participant) keys whose inline authz_grants fetch answered
    \* with an empty list
    authz_empty,
    \* inference_stats row by row: the committed rows, the connection of a running
    \* save_stats_batch, the last result of a get_stats on another connection, and
    \* the number of save_stats_batch calls made
    stats_rows, conn, seen, batches,
    \* the last response built from an epoch payload and an all-participants payload
    built,
    \* the last computed field of a ParticipantStats: its counters and its value
    rate,
    \* the upstream client: its base URLs, its rotation index, the running call
    base_urls, current_url_index, request,
    \* app.py: where each polling task stands, the tasks whose cancel() was called,
    \* where lifespan stands
    loop, cancelled, life,
    \* cache store (database.py tables) of the overlays, the rewards and the
    \* hardware nodes
    jail_status, node_health, participant_rewards, participant_hardware_nodes,
    \* history: the polling tasks that have written each table, themselves or
    \* through a sub-task they created
    writers,
    \* the epochs whose _ensure_participant_caches task was created and has not run
    ensure,
    \* poll_warm_keys and poll_hardware_nodes: where the running action stands;
    \* the actions the polling tasks have begun
    sweep, runs,
    \* the per-participant list tables row by row: the committed rows, the
    \* connection of a running save_*_batch, the last result of a lookup on another
    \* connection, and the number of save_*_batch calls made
    list_rows, list_conn, list_seen, saves,
    \* poll_participant_rewards step by step: where the running action stands
    rew,
    \* the last hardware node built for a ParticipantDetailsResponse, with its inputs
    ml_node,
    \* the last result of get_canonical_height for a historical epoch, with its inputs
    resolved

chainVars == <<latest_epoch, chain_height, effective_block_height, next_poc_start, settled, now>>
dbVars == <<inference_stats, epoch_status, epoch_total_rewards>>
svcVars == <<current_epoch_id, current_epoch_data, last_fetch_time>>
rowVars == <<stats_rows, conn, seen, batches>>
clientVars == <<base_urls, current_url_index, request>>
loopVars == <<loop, cancelled, life>>
tableVars == <<jail_status, node_health, participant_rewards, participant_hardware_nodes,
               writers, ensure, sweep, runs>>
listVars == <<list_rows, list_conn, list_seen, saves>>
\* the variables of the later sections
auxVars == <<listVars, rew, ml_node, resolved>>
fnVars == <<built, rate, clientVars, loopVars, tableVars, auxVars>>
detVars == <<participant_warm_keys, participant_inferences, det, inf_call, authz_empty, rowVars,
             fnVars>>
vars == <<latest_epoch, chain_height, effective_block_height, next_poc_start, settled, now,
          inference_stats, epoch_status, epoch_total_rewards,
          current_epoch_id, current_epoch_data, last_fetch_time,
          pc, cur, hist, calc, tot, mark_count, dispatched, calls, ticks,
          participant_warm_keys, participant_inferences, det, inf_call, authz_empty,
          stats_rows, conn, seen, batches, built, rate,
          base_urls, current_url_index, request, loop, cancelled, life,
          jail_status, node_health, participant_rewards, participant_hardware_nodes,
          writers, ensure, sweep, runs, list_rows, list_conn, list_seen, saves,
          rew, ml_node, resolved>>

\* ------------------------------------------------------------ responses
NoResponse == [epoch_id |-> None, height |-> None, is_current |-> FALSE,
               cached_at |-> None, total_assigned_rewards_gnk |-> None]

\* InferenceResponse(...) as built by get_historical_epoch_stats
HistoricalResponse(e, target, cached_at, total) ==
    [epoch_id |-> e, height |-> target, is_current |-> FALSE,
     cached_at |-> cached_at, total_assigned_rewards_gnk |-> total]

\* a response carrying the chain height at the time it is built
CurrentResponseAtLatestHeight(e, height, cached_at) ==
    [epoch_id |-> e, height |-> chain_height, is_current |-> TRUE,
     cached_at |-> cached_at, total_assigned_rewards_gnk |-> None]

\* InferenceResponse(...) as built by get_current_epoch_stats
CurrentResponse(e, height, cached_at) ==
    [epoch_id |-> e, height |-> height, is_current |-> TRUE,
     cached_at |-> cached_at, total_assigned_rewards_gnk |-> None]

\* ------------------------------------------------------------ frames
CurIdle == [current_time |-> None, reload |-> FALSE, height |-> None, epoch_id |-> None,
            all_height |-> None, old_epoch_id |-> None, transition |-> FALSE, failed |-> FALSE,
            published |-> NoResponse, response |-> NoResponse, outcome |-> "none"]

HistIdle == [epoch_id |-> None, height |-> None, calculate_rewards_sync |-> FALSE,
             is_finished |-> FALSE, latest_index |-> None, next_poc |-> None,
             effective_height |-> None, next_ok |-> FALSE, canonical_height |-> None,
             target_height |-> None, total_rewards_gnk |-> None, branch |-> "none",
             cached_at |-> None, wrote |-> FALSE, failed |-> FALSE,
             response |-> NoResponse, total_at_return |-> None, outcome |-> "none"]

HistNew(e, h, sync) == [HistIdle EXCEPT !.epoch_id = e, !.height = h,
                                        !.calculate_rewards_sync = sync, !.outcome = "running"]

CalcIdle == [epoch_id |-> None, idx |-> 0, total_ugnk |-> 0, fetched_count |-> 0,
             result |-> "none"]

CalcNew(e) == [CalcIdle EXCEPT !.epoch_id = e]

TotIdle == [current_epoch_id |-> None, offset |-> 0, outcome |-> "none"]

\* warm_keys_data: None, or a list of grants (here the set of grantee addresses)
NoKeys == [is_none |-> TRUE, rows |-> {}]

KeyList(rows) == [is_none |-> FALSE, rows |-> rows]

DetIdle == [epoch_id |-> None, participant_id |-> "", height |-> None,
            warm_keys_data |-> NoKeys, warm_keys_raw |-> {}, fetched |-> FALSE,
            caught |-> "", outcome |-> "none"]

DetNew(e, p) == [DetIdle EXCEPT !.epoch_id = e, !.participant_id = p, !.outcome = "running"]

\* the connection of save_stats_batch: its arguments, the statements still to run
\* (todo), the rows written inside its open transaction (pending)
ConnClosed == [state |-> "closed", epoch_id |-> None, height |-> None, batch |-> 0,
               participants_stats |-> <<>>, todo |-> <<>>, pending |-> {}]

\* the result of a get_stats, with the batch that was the latest one then, the
\* state of its connection and the number of its INSERTs already executed
NotSeen == [epoch_id |-> None, height |-> None, rows |-> {}, batch |-> 0,
            state |-> "closed", inserted |-> 0, participants_stats |-> <<>>]

\* the connection of a save_warm_keys_batch, save_hardware_nodes_batch or
\* save_participant_inferences_batch: its arguments, the rows of its key before it
\* (previous), the INSERTs still to run (todo), whether its DELETE ran, and the
\* table as its open transaction holds it (rows)
ListConnClosed == [state |-> "closed", table |-> "", epoch_id |-> None, participant_id |-> "",
                   items |-> <<>>, save |-> 0, previous |-> {}, deleted |-> FALSE,
                   todo |-> <<>>, rows |-> {}]

\* the result of a lookup, with the connection as it stood then
ListNotSeen == [rows |-> {}, conn |-> ListConnClosed]

\* the frame of poll_participant_rewards: the loop index, the rows collected, and
\* as history the keys whose cached row read as claimed and the keys requested
RewIdle == [state |-> "idle", current_epoch |-> None, i |-> 0, rewards_to_save |-> {},
            cached_claimed |-> {}, requested |-> {}]

\* a hardware node of a ParticipantDetailsResponse and what it was built from:
\* the participant's _ml_nodes_map and the registry row's poc_weight
NoNode == [local_id |-> "", ml_nodes_map |-> <<>>, registry |-> None, poc_weight |-> None]

\* a get_canonical_height(epoch_id, requested_height) for a historical epoch:
\* what upstream answered, the canonical height computed and how the call ended
NotResolved == [requested_height |-> None, effective_height |-> None, next_ok |-> FALSE,
                next_effective_height |-> None, next_poc_start |-> None,
                canonical_height |-> None, height |-> None, outcome |-> "none"]

\* the payloads of one fresh fetch and the response built from them
NotBuilt == [epoch_group_id |-> None, epoch_participants |-> <<>>, participant |-> <<>>,
             malformed |-> {}, epoch_id |-> None, is_current |-> FALSE, participants |-> <<>>]

\* a computed field: its name, the two counters it read and its value in units
\* of 0.0001
NoRate == [field |-> "none", numerator |-> 0, inference_count |-> 0, value |-> 0]

\* the seven polling tasks in the order lifespan creates and cancels them
TaskOrder == <<"poll_current_epoch", "poll_jail_status", "poll_node_health", "poll_rewards",
               "poll_warm_keys", "poll_hardware_nodes", "poll_epoch_total_rewards">>

PollingTasks == {TaskOrder[i] : i \in 1..Len(TaskOrder)}

\* poll_current_epoch enters its loop at once, the others sleep first
HasInitialDelay(t) == t # "poll_current_epoch"

\* the await a created task is suspended in when lifespan yields: the event loop
\* runs the seven first steps before anything that can resume lifespan
FirstAwait(t) == IF HasInitialDelay(t) THEN "delay" ELSE "action"

\* lifespan after its yield: serving; then for the i-th task cancel() and await
Serving == [state |-> "serving", i |-> 0]

\* one client call: the index it started at, its attempts in order (the URL and
\* whether it answered), its outcome
NoRequest == [state |-> "none", first |-> 0, attempts |-> <<>>]

\* the tables of database.py the polling tasks write
Tables == {"inference_stats", "epoch_status", "epoch_total_rewards", "jail_status",
           "node_health", "participant_rewards", "participant_warm_keys",
           "participant_hardware_nodes"}

\* no row of participant_rewards for a key
NoReward == [rewarded_coins |-> None, claimed |-> FALSE]

\* a per-participant table with no row
NoParticipantRows == [k \in Epochs \X ParticipantIds |-> {}]

\* the tasks whose action goes through the participants one by one
SweepTasks == {"poll_warm_keys", "poll_hardware_nodes"}

\* one action of such a task: the epoch and the participants it read, the answer
\* of the upstream for the participant at hand, the table as it was when the
\* action began, how the action ended
SweepIdle == [state |-> "idle", current_epoch |-> None, todo |-> <<>>, fetched |-> {},
              before |-> NoParticipantRows, ended |-> "none"]

NoCall == [epoch_id |-> None, participant_id |-> "", inferences |-> {}, outcome |-> "none"]

\* ------------------------------------------------------------ cache store
\* the outcome of a SELECT that finds no row of inference_stats
NoRows == [cached_at |-> None]

\* CacheDB.get_stats(epoch_id, height): the rows of (epoch_id, height), or None
get_stats(e, h) ==
    IF <<e, h>> \in DOMAIN inference_stats THEN inference_stats[<<e, h>>] ELSE NoRows

\* CacheDB.save_stats_batch: INSERT OR REPLACE of the batch, one commit
save_stats_batch(e, h) ==
    [k \in DOMAIN inference_stats \cup {<<e, h>>} |->
        IF k = <<e, h>> THEN [cached_at |-> now] ELSE inference_stats[k]]

\* CacheDB.is_epoch_finished
is_epoch_finished(e) == epoch_status[e] # None

\* CacheDB.mark_epoch_finished: INSERT OR REPLACE INTO epoch_status
mark_epoch_finished(e, h) == [epoch_status EXCEPT ![e] = h]

\* CacheDB.get_epoch_total_rewards / save / delete
get_epoch_total_rewards(e) == epoch_total_rewards[e]
save_epoch_total_rewards(e, v) == [epoch_total_rewards EXCEPT ![e] = v]
delete_epoch_total_rewards(e) == [epoch_total_rewards EXCEPT ![e] = None]

\* ------------------------------------------------------------ chain
\* an epoch the upstream can answer epoch_group for
Queryable(e) == e \in Epochs /\ e <= latest_epoch

Blocks == (chain_height - GenesisHeight) \div BlockStep

AdvanceBlock ==
    /\ Blocks < MaxBlocks
    /\ chain_height' = chain_height + BlockStep
    /\ UNCHANGED <<latest_epoch, effective_block_height, next_poc_start, settled, now>>
    /\ UNCHANGED <<detVars, dbVars, svcVars, pc, cur, hist, calc, tot, mark_count, dispatched, calls, ticks>>

NewEpoch ==
    /\ Blocks < MaxBlocks
    /\ latest_epoch < MaxEpoch
    /\ chain_height + BlockStep - effective_block_height[latest_epoch] >= MinEpochLength
    /\ chain_height' = chain_height + BlockStep
    /\ latest_epoch' = latest_epoch + 1
    /\ effective_block_height' =
           [effective_block_height EXCEPT ![latest_epoch + 1] = chain_height + BlockStep]
    /\ next_poc_start' = chain_height + BlockStep + PocOffset
    /\ UNCHANGED <<settled, now>>
    /\ UNCHANGED <<detVars, dbVars, svcVars, pc, cur, hist, calc, tot, mark_count, dispatched, calls, ticks>>

Settle ==
    /\ \E e \in Epochs : e < latest_epoch /\ e \notin settled /\ settled' = settled \cup {e}
    /\ UNCHANGED <<latest_epoch, chain_height, effective_block_height, next_poc_start, now>>
    /\ UNCHANGED <<detVars, dbVars, svcVars, pc, cur, hist, calc, tot, mark_count, dispatched, calls, ticks>>

Tick ==
    /\ now < MaxTime
    /\ now' = now + 1
    /\ UNCHANGED <<latest_epoch, chain_height, effective_block_height, next_poc_start, settled>>
    /\ UNCHANGED <<detVars, dbVars, svcVars, pc, cur, hist, calc, tot, mark_count, dispatched, calls, ticks>>

\* time passes until the response of a fetch that began a second ago has the age
\* of the TTL
Elapse ==
    /\ now <= MaxTime
    /\ now' = now + (CacheTtl - 1)
    /\ UNCHANGED <<latest_epoch, chain_height, effective_block_height, next_poc_start, settled>>
    /\ UNCHANGED <<detVars, dbVars, svcVars, pc, cur, hist, calc, tot, mark_count, dispatched, calls, ticks>>

\* ------------------------------------------------------------ Init
Init ==
    /\ latest_epoch = 1
    /\ chain_height = GenesisHeight
    /\ effective_block_height = [e \in Epochs |-> IF e = 1 THEN GenesisHeight ELSE None]
    /\ next_poc_start = GenesisHeight + PocOffset
    /\ settled = {}
    /\ now = 0
    /\ inference_stats = <<>>
    /\ epoch_status = [e \in Epochs |-> None]
    /\ epoch_total_rewards = [e \in Epochs |-> None]
    /\ current_epoch_id = None
    /\ current_epoch_data = NoResponse
    /\ last_fetch_time = None
    /\ pc = [t \in Threads |-> "idle"]
    /\ cur = [t \in Threads |-> CurIdle]
    /\ hist = [t \in Threads |-> HistIdle]
    /\ calc = [t \in Threads |-> CalcIdle]
    /\ tot = TotIdle
    /\ dispatched = {}
    /\ mark_count = [e \in Epochs |-> 0]
    /\ calls = 0
    /\ ticks = [t \in {PollTask, TotalsTask} |-> 0]
    /\ participant_warm_keys = [k \in Epochs \X ParticipantIds |-> {}]
    /\ participant_inferences = [k \in Epochs \X ParticipantIds |-> {}]
    /\ det = [t \in DetailReaders |-> DetIdle]
    /\ inf_call = NoCall
    /\ authz_empty = {}
    /\ stats_rows = {}
    /\ conn = ConnClosed
    /\ seen = NotSeen
    /\ batches = 0
    /\ built = NotBuilt
    /\ rate = NoRate
    /\ base_urls = <<>>
    /\ current_url_index = 0
    /\ request = NoRequest
    /\ loop = [t \in PollingTasks |-> FirstAwait(t)]
    /\ cancelled = {}
    /\ life = Serving
    /\ jail_status = [e \in Epochs |-> {}]
    /\ node_health = {}
    /\ participant_rewards = [k \in Epochs \X ParticipantIds |-> NoReward]
    /\ participant_hardware_nodes = NoParticipantRows
    /\ writers = [x \in Tables |-> {}]
    /\ ensure = {}
    /\ sweep = [k \in SweepTasks |-> SweepIdle]
    /\ runs = 0
    /\ list_rows = {}
    /\ list_conn = ListConnClosed
    /\ list_seen = ListNotSeen
    /\ saves = 0
    /\ rew = RewIdle
    /\ ml_node = NoNode
    /\ resolved = NotResolved

\* ------------------------------------------------------------ get_canonical_height
\* Python truthiness of an Optional[int]: None and 0 are false
Truthy(x) == x # None /\ x # 0

\* epoch_id == current_epoch_id branch: requested_height if requested_height else current_height
CurrentEpochHeight(requested_height, current_height) ==
    IF Truthy(requested_height) THEN requested_height ELSE current_height

\* get_canonical_height without the subtraction of 10 blocks
CanonicalHeightNoOffset(next_ok, next_effective_height, next_poc) ==
    IF next_ok THEN next_effective_height ELSE next_poc

\* try: next_effective_height - 10  except: next_poc_start - 10
CanonicalHeight(next_ok, next_effective_height, next_poc) ==
    IF next_ok THEN next_effective_height - CanonicalOffset
    ELSE next_poc - CanonicalOffset

\* get_canonical_height without the check of lines 70-74
InvalidHeightNever(requested_height, effective_height) == FALSE

\* requested_height < effective_height raises ValueError
InvalidHeight(requested_height, effective_height) ==
    requested_height # None /\ requested_height < effective_height

\* get_canonical_height returning every requested height as it is
ResolveHeightNoClamp(requested_height, canonical_height) ==
    IF requested_height = None THEN canonical_height ELSE requested_height

\* the height returned for a historical epoch when no error is raised
ResolveHeight(requested_height, canonical_height) ==
    IF requested_height = None THEN canonical_height
    ELSE IF requested_height >= canonical_height THEN canonical_height
    ELSE requested_height

\* block heights an upstream answer or a request can carry, half a step apart
PayloadHeights == {GenesisHeight + i * (BlockStep \div 2) : i \in 0..(MaxBlocks + 1)}

\* get_canonical_height(epoch_id, requested_height) for an epoch other than the
\* current one, from the answers of get_epoch_participants(epoch_id),
\* get_epoch_participants(epoch_id + 1) (or its failure) and get_latest_epoch
GetCanonicalHeight ==
    /\ resolved = NotResolved
    /\ \E requested_height \in PayloadHeights \cup {None},
          effective_height \in PayloadHeights, next_ok \in BOOLEAN,
          next_effective_height \in PayloadHeights, next_poc \in PayloadHeights :
          \* the epochs after this one begin after it, and the next PoC after them
          /\ next_effective_height > effective_height
          /\ next_poc > effective_height
          /\ LET canonical_height == CanonicalHeight(next_ok, next_effective_height, next_poc)
                 invalid == InvalidHeight(requested_height, effective_height)
             IN  resolved' =
                     [requested_height |-> requested_height,
                      effective_height |-> effective_height, next_ok |-> next_ok,
                      next_effective_height |-> next_effective_height,
                      next_poc_start |-> next_poc,
                      canonical_height |-> canonical_height,
                      height |-> IF invalid THEN None
                                 ELSE ResolveHeight(requested_height, canonical_height),
                      outcome |-> IF invalid THEN "InvalidHeight" ELSE "ok"]
    /\ UNCHANGED <<chainVars, dbVars, svcVars, pc, cur, hist, calc, tot, mark_count, dispatched,
                   calls, ticks, participant_warm_keys, participant_inferences, det, inf_call,
                   authz_empty, rowVars, built, rate, clientVars, loopVars, tableVars,
                   listVars, rew, ml_node>>

\* ------------------------------------------------------------ get_historical_epoch_stats
\* where control goes when get_historical_epoch_stats returns or raises:
\* the transition path of the current-epoch fetch catches and continues, an API
\* reader is finished, get_participant_details goes on with the stats (or to its
\* except clause)
AfterHist(t) ==
    IF t = PollTask \/ cur[t].transition THEN "G_all"
    ELSE IF t \in DetailReaders THEN "D_stats" ELSE "idle"

HistRaise(t, kind) ==
    /\ pc' = [pc EXCEPT ![t] = AfterHist(t)]
    /\ hist' = [hist EXCEPT ![t].outcome = kind, ![t].failed = TRUE]

\* an API request calls get_historical_epoch_stats(epoch_id) with height = None
StartHistorical(t) ==
    /\ t \in Readers
    /\ pc[t] = "idle"
    /\ calls < MaxCalls
    /\ calls' = calls + 1
    /\ \E e \in Epochs : hist' = [hist EXCEPT ![t] = HistNew(e, None, FALSE)]
    /\ pc' = [pc EXCEPT ![t] = "H_isfin"]
    /\ UNCHANGED <<chainVars, detVars, dbVars, svcVars, cur, calc, tot, mark_count, dispatched, ticks>>

\* an API request calls get_historical_epoch_stats(epoch_id, height)
StartHistoricalAt(t) ==
    /\ t \in Readers
    /\ pc[t] = "idle"
    /\ calls < MaxCalls
    /\ calls' = calls + 1
    /\ \E e \in Epochs, h \in RequestHeights :
           hist' = [hist EXCEPT ![t] = HistNew(e, h, FALSE)]
    /\ pc' = [pc EXCEPT ![t] = "H_isfin"]
    /\ UNCHANGED <<chainVars, detVars, dbVars, svcVars, cur, calc, tot, mark_count, dispatched, ticks>>

\* is_finished = await self.cache_db.is_epoch_finished(epoch_id)
H_isfin(t) ==
    /\ pc[t] = "H_isfin"
    /\ hist' = [hist EXCEPT ![t].is_finished = is_epoch_finished(hist[t].epoch_id)]
    /\ pc' = [pc EXCEPT ![t] = "H_latest"]
    /\ UNCHANGED <<chainVars, detVars, dbVars, svcVars, cur, calc, tot, mark_count, dispatched, calls, ticks>>

\* latest_info = await self.client.get_latest_epoch()
H_latest(t) ==
    /\ pc[t] = "H_latest"
    /\ \/ /\ hist' = [hist EXCEPT ![t].latest_index = latest_epoch,
                                  ![t].next_poc = next_poc_start]
          /\ pc' = [pc EXCEPT ![t] = IF hist[t].epoch_id = latest_epoch
                                     THEN "H_height" ELSE "H_epoch"]
       \/ HistRaise(t, "UpstreamUnavailable")
    /\ UNCHANGED <<chainVars, detVars, dbVars, svcVars, cur, calc, tot, mark_count, dispatched, calls, ticks>>

\* current_height = await self.client.get_latest_height()   (epoch_id is the current epoch)
H_height(t) ==
    /\ pc[t] = "H_height"
    /\ \/ /\ hist' = [hist EXCEPT ![t].target_height =
                          CurrentEpochHeight(hist[t].height, chain_height)]
          /\ pc' = [pc EXCEPT ![t] = "H_getstats"]
       \/ HistRaise(t, "UpstreamUnavailable")
    /\ UNCHANGED <<chainVars, detVars, dbVars, svcVars, cur, calc, tot, mark_count, dispatched, calls, ticks>>

\* epoch_data = await self.client.get_epoch_participants(epoch_id)
H_epoch(t) ==
    /\ pc[t] = "H_epoch"
    /\ \/ /\ Queryable(hist[t].epoch_id)
          /\ hist' = [hist EXCEPT ![t].effective_height =
                          effective_block_height[hist[t].epoch_id]]
          /\ pc' = [pc EXCEPT ![t] = "H_next"]
       \/ HistRaise(t, "UpstreamUnavailable")
    /\ UNCHANGED <<chainVars, detVars, dbVars, svcVars, cur, calc, tot, mark_count, dispatched, calls, ticks>>

\* the rest of get_canonical_height once the call for epoch_id + 1 has answered
\* (next_ok) or raised (~next_ok)
HistResolved(t, next_ok) ==
    LET f == hist[t]
        nxt == IF next_ok THEN effective_block_height[f.epoch_id + 1] ELSE None
        canonical == CanonicalHeight(next_ok, nxt, f.next_poc)
    IN IF InvalidHeight(f.height, f.effective_height)
       THEN /\ pc' = [pc EXCEPT ![t] = AfterHist(t)]
            /\ hist' = [hist EXCEPT ![t].next_ok = next_ok,
                                    ![t].failed = f.failed \/ ~next_ok,
                                    ![t].canonical_height = canonical,
                                    ![t].outcome = "InvalidHeight"]
       ELSE /\ pc' = [pc EXCEPT ![t] = "H_getstats"]
            /\ hist' = [hist EXCEPT ![t].next_ok = next_ok,
                                    ![t].failed = f.failed \/ ~next_ok,
                                    ![t].canonical_height = canonical,
                                    ![t].target_height = ResolveHeight(f.height, canonical)]

\* next_epoch_data = await self.client.get_epoch_participants(epoch_id + 1)
H_next(t) ==
    /\ pc[t] = "H_next"
    /\ \/ /\ Queryable(hist[t].epoch_id + 1)
          /\ HistResolved(t, TRUE)
       \/ HistResolved(t, FALSE)
    /\ UNCHANGED <<chainVars, detVars, dbVars, svcVars, cur, calc, tot, mark_count, dispatched, calls, ticks>>

\* cached_stats = await self.cache_db.get_stats(epoch_id, height=target_height)
H_getstats(t) ==
    /\ pc[t] = "H_getstats"
    /\ LET cached == get_stats(hist[t].epoch_id, hist[t].target_height) # NoRows
       IN /\ hist' = [hist EXCEPT ![t].branch = IF cached THEN "cached" ELSE "fresh",
                                  ![t].cached_at =
                                      IF cached
                                      THEN get_stats(hist[t].epoch_id,
                                                     hist[t].target_height).cached_at
                                      ELSE None]
          /\ pc' = [pc EXCEPT ![t] = IF cached THEN "H_c_epoch" ELSE "H_f_all"]
    /\ UNCHANGED <<chainVars, detVars, dbVars, svcVars, cur, calc, tot, mark_count, dispatched, calls, ticks>>

\* get_historical_epoch_stats returns its InferenceResponse; f is the frame as
\* the returning step leaves it; spawn: asyncio.create_task(
\* self._calculate_and_cache_total_rewards(epoch_id)) was called on the way
HistReturn(t, f, total, cached_at, spawn) ==
    /\ hist' = [hist EXCEPT ![t] =
                   [f EXCEPT !.outcome = "ok",
                             !.total_rewards_gnk = total,
                             !.total_at_return = epoch_total_rewards'[f.epoch_id],
                             !.response = HistoricalResponse(f.epoch_id, f.target_height,
                                                             cached_at, total)]]
    /\ pc' = [pc EXCEPT ![t] = AfterHist(t)]
    /\ calc' = calc
    /\ dispatched' = IF spawn THEN dispatched \cup {f.epoch_id} ELSE dispatched

\* cached branch: epoch_data = await self.client.get_epoch_participants(epoch_id)
H_c_epoch(t) ==
    /\ pc[t] = "H_c_epoch"
    /\ \/ /\ Queryable(hist[t].epoch_id)
          /\ pc' = [pc EXCEPT ![t] = "H_c_total"]
          /\ hist' = hist
       \/ HistRaise(t, "UpstreamUnavailable")
    /\ UNCHANGED <<chainVars, detVars, dbVars, svcVars, cur, calc, tot, mark_count, dispatched, calls, ticks>>

\* what the cached branch does once it knows total_rewards_gnk is None (after the
\* read, or after the delete of a 0): compute inline or dispatch and return
CachedMissingTotal(t, f, total) ==
    IF f.calculate_rewards_sync
    THEN /\ hist' = [hist EXCEPT ![t] = [f EXCEPT !.total_rewards_gnk = total]]
         /\ pc' = [pc EXCEPT ![t] = "C_epoch"]
         /\ calc' = [calc EXCEPT ![t] = CalcNew(f.epoch_id)]
         /\ dispatched' = dispatched
    ELSE HistReturn(t, f, total, f.cached_at, TRUE)

\* total_rewards_gnk = await self.cache_db.get_epoch_total_rewards(epoch_id)
H_c_total(t) ==
    /\ pc[t] = "H_c_total"
    /\ UNCHANGED <<chainVars, detVars, dbVars, svcVars, cur, tot, mark_count, calls, ticks>>
    /\ LET f == hist[t]
           total == get_epoch_total_rewards(f.epoch_id)
       IN IF total = 0
          THEN /\ hist' = [hist EXCEPT ![t].total_rewards_gnk = total]
               /\ pc' = [pc EXCEPT ![t] = "H_c_delete"]
               /\ UNCHANGED <<calc, dispatched>>
          ELSE IF total = None
          THEN CachedMissingTotal(t, f, total)
          ELSE HistReturn(t, f, total, f.cached_at, FALSE)

\* await self.cache_db.delete_epoch_total_rewards(epoch_id)
H_c_delete(t) ==
    /\ pc[t] = "H_c_delete"
    /\ epoch_total_rewards' = delete_epoch_total_rewards(hist[t].epoch_id)
    /\ UNCHANGED <<chainVars, detVars, inference_stats, epoch_status, svcVars, cur, tot, mark_count, calls, ticks>>
    /\ CachedMissingTotal(t, [hist[t] EXCEPT !.wrote = TRUE], hist[t].total_rewards_gnk)

\* total_rewards_gnk = await self.cache_db.get_epoch_total_rewards(epoch_id)
\* after the synchronous computation
H_c_reread(t) ==
    /\ pc[t] = "H_c_reread"
    /\ UNCHANGED <<chainVars, detVars, dbVars, svcVars, cur, tot, mark_count, calls, ticks>>
    /\ HistReturn(t, hist[t], get_epoch_total_rewards(hist[t].epoch_id),
                  hist[t].cached_at, FALSE)

\* fresh branch: all_participants_data = await self.client.get_all_participants(height=target_height)
H_f_all(t) ==
    /\ pc[t] = "H_f_all"
    /\ \/ /\ hist[t].target_height <= chain_height
          /\ pc' = [pc EXCEPT ![t] = "H_f_epoch"]
          /\ hist' = hist
       \/ HistRaise(t, "UpstreamUnavailable")
    /\ UNCHANGED <<chainVars, detVars, dbVars, svcVars, cur, calc, tot, mark_count, dispatched, calls, ticks>>

\* epoch_data = await self.client.get_epoch_participants(epoch_id)
H_f_epoch(t) ==
    /\ pc[t] = "H_f_epoch"
    /\ \/ /\ Queryable(hist[t].epoch_id)
          /\ pc' = [pc EXCEPT ![t] = "H_f_save"]
          /\ hist' = hist
       \/ HistRaise(t, "UpstreamUnavailable")
    /\ UNCHANGED <<chainVars, detVars, dbVars, svcVars, cur, calc, tot, mark_count, dispatched, calls, ticks>>

\* the mark made whatever height was requested
MarksFinishedAtAnyHeight(height, is_finished) == ~is_finished

\* if height is None and not is_finished
MarksFinished(height, is_finished) == height = None /\ ~is_finished

\* await self.cache_db.save_stats_batch(epoch_id, target_height, stats_for_saving)
H_f_save(t) ==
    /\ pc[t] = "H_f_save"
    /\ inference_stats' = save_stats_batch(hist[t].epoch_id, hist[t].target_height)
    /\ hist' = [hist EXCEPT ![t].wrote = TRUE]
    /\ pc' = [pc EXCEPT ![t] = IF MarksFinished(hist[t].height, hist[t].is_finished)
                               THEN "H_f_mark" ELSE "H_f_total"]
    /\ UNCHANGED <<chainVars, detVars, epoch_status, epoch_total_rewards, svcVars, cur, calc, tot,
                   mark_count, dispatched, calls, ticks>>

\* await self.cache_db.mark_epoch_finished(epoch_id, target_height)
H_f_mark(t) ==
    /\ pc[t] = "H_f_mark"
    /\ epoch_status' = mark_epoch_finished(hist[t].epoch_id, hist[t].target_height)
    /\ mark_count' = [mark_count EXCEPT ![hist[t].epoch_id] = @ + 1]
    /\ pc' = [pc EXCEPT ![t] = "H_f_total"]
    /\ UNCHANGED <<chainVars, detVars, inference_stats, epoch_total_rewards, svcVars, cur, hist, calc,
                   tot, dispatched, calls, ticks>>

\* total_rewards_gnk = await self.cache_db.get_epoch_total_rewards(epoch_id)
\* if total_rewards_gnk is None: asyncio.create_task(...)
\* response = InferenceResponse(..., cached_at=datetime.utcnow().isoformat(), ...)
\* (calculate_rewards_sync is not consulted on this branch)
H_f_total(t) ==
    /\ pc[t] = "H_f_total"
    /\ UNCHANGED <<chainVars, detVars, dbVars, svcVars, cur, tot, mark_count, calls, ticks>>
    /\ LET total == get_epoch_total_rewards(hist[t].epoch_id)
       IN HistReturn(t, hist[t], total, now, total = None)

\* the steps of get_historical_epoch_stats the transition path (a finished
\* epoch, calculate_rewards_sync = True) can take
HistoricalSync(t) ==
    \/ H_isfin(t) \/ H_latest(t) \/ H_epoch(t) \/ H_next(t) \/ H_getstats(t)
    \/ H_c_epoch(t) \/ H_c_total(t) \/ H_c_delete(t) \/ H_c_reread(t)
    \/ H_f_all(t) \/ H_f_epoch(t) \/ H_f_save(t) \/ H_f_mark(t) \/ H_f_total(t)

\* the steps of get_historical_epoch_stats an API reader (calculate_rewards_sync
\* = False) can take while no total of 0 is stored
HistoricalRead(t) ==
    \/ H_isfin(t) \/ H_latest(t) \/ H_height(t) \/ H_epoch(t) \/ H_next(t) \/ H_getstats(t)
    \/ H_c_epoch(t) \/ H_c_total(t)
    \/ H_f_all(t) \/ H_f_epoch(t) \/ H_f_save(t) \/ H_f_mark(t) \/ H_f_total(t)

\* ------------------------------------------------------------ _calculate_and_cache_total_rewards
\* epoch_performance_summary(epoch_id, participant).rewarded_coins
epoch_performance_summary(e, p) == IF e \in settled THEN RewardedCoins(p) ELSE 0

\* _calculate_and_cache_total_rewards without the test of line 817
ZeroSumSkipNever(total_ugnk, fetched_count) == FALSE

\* if total_ugnk == 0 and fetched_count > 0: return   (skip the cache)
ZeroSumSkip(total_ugnk, fetched_count) == total_ugnk = 0 /\ fetched_count > 0

\* total_gnk = total_ugnk // 1_000_000_000
TotalGnk(total_ugnk) == total_ugnk \div UgnkPerGnk

\* for offset in range(1, 6): epoch_id = current_epoch_id - offset; if epoch_id <= 0: continue
\* the next offset after `offset` whose epoch is polled, 0 when the loop is over
NextOffset(current, offset) ==
    IF \E o \in (offset + 1)..PollWindow : current - o > 0
    THEN CHOOSE o \in (offset + 1)..PollWindow :
             /\ current - o > 0
             /\ \A o2 \in (offset + 1)..PollWindow : current - o2 > 0 => o <= o2
    ELSE 0

\* _calculate_and_cache_total_rewards returns (it never raises): a background task
\* ends, poll_epoch_total_rewards goes on with its loop, the synchronous caller
\* in get_historical_epoch_stats goes on to re-read the total; f is the frame
\* of the computation as it ends, result how it ended
CalcReturn(t, f, result) ==
    /\ calc' = [calc EXCEPT ![t] = [f EXCEPT !.result = result]]
    /\ IF t \in BgTasks
       THEN /\ pc' = [pc EXCEPT ![t] = "idle"]
            /\ tot' = tot
       ELSE IF t = TotalsTask
       THEN LET o == NextOffset(tot.current_epoch_id, tot.offset)
            IN /\ pc' = [pc EXCEPT ![t] = IF o = 0 THEN "idle" ELSE "T_get"]
               /\ tot' = [tot EXCEPT !.offset = o,
                                     !.outcome = IF o = 0 THEN "ok" ELSE @]
       ELSE /\ pc' = [pc EXCEPT ![t] = "H_c_reread"]
            /\ tot' = tot

\* epoch_data = await self.client.get_epoch_participants(epoch_id)
C_epoch(t) ==
    /\ pc[t] = "C_epoch"
    /\ \/ /\ Queryable(calc[t].epoch_id)
          /\ calc' = [calc EXCEPT ![t].idx = 1]
          /\ pc' = [pc EXCEPT ![t] = "C_fetch"]
          /\ tot' = tot
       \/ CalcReturn(t, calc[t], "failed")
    /\ UNCHANGED <<chainVars, detVars, dbVars, svcVars, cur, hist, mark_count, dispatched, calls, ticks>>

\* the loop body for participants[idx], then (after the last one) the zero-sum test
CalcFetched(t, ok) ==
    LET f == calc[t]
        amount == epoch_performance_summary(f.epoch_id, Participants[f.idx])
        total == IF ok THEN f.total_ugnk + amount ELSE f.total_ugnk
        fetched == IF ok THEN f.fetched_count + 1 ELSE f.fetched_count
    IN IF f.idx < Len(Participants)
       THEN /\ calc' = [calc EXCEPT ![t] = [f EXCEPT !.idx = f.idx + 1,
                                                     !.total_ugnk = total,
                                                     !.fetched_count = fetched]]
            /\ pc' = pc
            /\ tot' = tot
       ELSE IF ZeroSumSkip(total, fetched)
       THEN CalcReturn(t, [f EXCEPT !.total_ugnk = total, !.fetched_count = fetched],
                       "skipped")
       ELSE /\ calc' = [calc EXCEPT ![t] = [f EXCEPT !.idx = f.idx + 1,
                                                     !.total_ugnk = total,
                                                     !.fetched_count = fetched]]
            /\ pc' = [pc EXCEPT ![t] = "C_savetotal"]
            /\ tot' = tot

\* summary = await self.client.get_epoch_performance_summary(epoch_id, participant_id)
C_fetch(t) ==
    /\ pc[t] = "C_fetch"
    /\ \/ CalcFetched(t, TRUE)
       \/ CalcFetched(t, FALSE)
    /\ UNCHANGED <<chainVars, detVars, dbVars, svcVars, cur, hist, mark_count, dispatched, calls, ticks>>

\* await self.cache_db.save_epoch_total_rewards(epoch_id, total_gnk)
C_savetotal(t) ==
    /\ pc[t] = "C_savetotal"
    /\ epoch_total_rewards' =
           save_epoch_total_rewards(calc[t].epoch_id, TotalGnk(calc[t].total_ugnk))
    /\ hist' = IF t \in Readers \cup {PollTask}
               THEN [hist EXCEPT ![t].wrote = TRUE] ELSE hist
    /\ CalcReturn(t, calc[t], "saved")
    /\ UNCHANGED <<chainVars, detVars, inference_stats, epoch_status, svcVars, cur, mark_count, dispatched, calls, ticks>>

\* a task created by asyncio.create_task(self._calculate_and_cache_total_rewards(e))
\* starts running
B_start(t) ==
    /\ t \in BgTasks
    /\ pc[t] = "idle"
    /\ \E e \in dispatched :
           /\ dispatched' = dispatched \ {e}
           /\ calc' = [calc EXCEPT ![t] = CalcNew(e)]
    /\ pc' = [pc EXCEPT ![t] = "C_epoch"]
    /\ UNCHANGED <<chainVars, detVars, dbVars, svcVars, cur, hist, tot, mark_count, calls, ticks>>

Calculate(t) == C_epoch(t) \/ C_fetch(t) \/ C_savetotal(t)

Background(t) == B_start(t) \/ Calculate(t)

\* ------------------------------------------------------------ poll_epoch_total_rewards
\* one iteration of app.poll_epoch_total_rewards starts
T_start ==
    /\ pc[TotalsTask] = "idle"
    /\ ticks[TotalsTask] < MaxTotalsPolls
    /\ ticks' = [ticks EXCEPT ![TotalsTask] = @ + 1]
    /\ pc' = [pc EXCEPT ![TotalsTask] = "T_latest"]
    /\ tot' = [TotIdle EXCEPT !.outcome = "running"]
    /\ UNCHANGED <<chainVars, detVars, dbVars, svcVars, cur, hist, calc, mark_count, dispatched, calls>>

\* latest_info = await self.client.get_latest_epoch()
T_latest ==
    /\ pc[TotalsTask] = "T_latest"
    /\ \/ LET o == NextOffset(latest_epoch, 0)
          IN /\ tot' = [tot EXCEPT !.current_epoch_id = latest_epoch, !.offset = o,
                                   !.outcome = IF o = 0 THEN "ok" ELSE @]
             /\ pc' = [pc EXCEPT ![TotalsTask] = IF o = 0 THEN "idle" ELSE "T_get"]
       \/ /\ tot' = [tot EXCEPT !.outcome = "failed"]
          /\ pc' = [pc EXCEPT ![TotalsTask] = "idle"]
    /\ UNCHANGED <<chainVars, detVars, dbVars, svcVars, cur, hist, calc, mark_count, dispatched, calls, ticks>>

\* cached_total = await self.cache_db.get_epoch_total_rewards(epoch_id)
T_get ==
    /\ pc[TotalsTask] = "T_get"
    /\ LET e == tot.current_epoch_id - tot.offset
           cached_total == get_epoch_total_rewards(e)
           o == NextOffset(tot.current_epoch_id, tot.offset)
       IN IF cached_total # None /\ cached_total > 0
          THEN /\ tot' = [tot EXCEPT !.offset = o, !.outcome = IF o = 0 THEN "ok" ELSE @]
               /\ pc' = [pc EXCEPT ![TotalsTask] = IF o = 0 THEN "idle" ELSE "T_get"]
               /\ calc' = calc
          ELSE IF cached_total = 0
          THEN /\ pc' = [pc EXCEPT ![TotalsTask] = "T_delete"]
               /\ UNCHANGED <<tot, calc>>
          ELSE /\ pc' = [pc EXCEPT ![TotalsTask] = "C_epoch"]
               /\ calc' = [calc EXCEPT ![TotalsTask] = CalcNew(e)]
               /\ tot' = tot
    /\ UNCHANGED <<chainVars, detVars, dbVars, svcVars, cur, hist, mark_count, dispatched, calls, ticks>>

\* await self.cache_db.delete_epoch_total_rewards(epoch_id)
T_delete ==
    /\ pc[TotalsTask] = "T_delete"
    /\ epoch_total_rewards' = delete_epoch_total_rewards(tot.current_epoch_id - tot.offset)
    /\ pc' = [pc EXCEPT ![TotalsTask] = "C_epoch"]
    /\ calc' = [calc EXCEPT ![TotalsTask] = CalcNew(tot.current_epoch_id - tot.offset)]
    /\ UNCHANGED <<chainVars, detVars, inference_stats, epoch_status, svcVars, cur, hist, tot,
                   mark_count, dispatched, calls, ticks>>

PollTotals == T_start \/ T_latest \/ T_get \/ T_delete

\* ------------------------------------------------------------ get_current_epoch_stats
\* get_current_epoch_stats re-raising whether or not a response was published
CurFailAlwaysRaises(t) ==
    /\ cur' = [cur EXCEPT ![t].failed = TRUE, ![t].outcome = "raised"]
    /\ pc' = [pc EXCEPT ![t] = "idle"]

\* except Exception: return self.current_epoch_data if there is one, else re-raise
CurFail(t) ==
    /\ cur' = [cur EXCEPT ![t].failed = TRUE,
                          ![t].response = current_epoch_data,
                          ![t].outcome = IF current_epoch_data # NoResponse
                                         THEN "cached" ELSE "raised"]
    /\ pc' = [pc EXCEPT ![t] = "idle"]

\* one iteration of app.poll_current_epoch: get_current_epoch_stats(reload=True)
G_start(t) ==
    /\ t = PollTask
    /\ pc[t] = "idle"
    /\ ticks[t] < MaxPolls
    /\ ticks' = [ticks EXCEPT ![t] = @ + 1]
    /\ cur' = [cur EXCEPT ![t] = [CurIdle EXCEPT !.current_time = now, !.reload = TRUE,
                                                 !.outcome = "running"]]
    /\ pc' = [pc EXCEPT ![t] = "G_height"]
    /\ UNCHANGED <<chainVars, detVars, dbVars, svcVars, hist, calc, tot, mark_count, dispatched, calls>>

\* cache_age = (current_time - self.last_fetch_time) if self.last_fetch_time else None
\* (now counts the seconds since the service started; time.time() itself is never 0)
CacheAge(current_time) ==
    IF last_fetch_time # None THEN current_time - last_fetch_time ELSE None

\* if not reload and self.current_epoch_data and cache_age and cache_age < 300
ServesCached(reload, current_time) ==
    /\ ~reload
    /\ current_epoch_data # NoResponse
    /\ Truthy(CacheAge(current_time))
    /\ CacheAge(current_time) < CacheTtl

\* an API request or get_participant_details calls get_current_epoch_stats():
\* the published response is returned, or the fresh fetch begins
G_call(t) ==
    /\ t \in Readers
    /\ pc[t] = "idle"
    /\ calls < MaxCalls
    /\ calls' = calls + 1
    /\ IF ServesCached(FALSE, now)
       THEN /\ cur' = [cur EXCEPT ![t] = [CurIdle EXCEPT !.current_time = now,
                                                         !.published = current_epoch_data,
                                                         !.response = current_epoch_data,
                                                         !.outcome = "served"]]
            /\ pc' = pc
       ELSE /\ cur' = [cur EXCEPT ![t] = [CurIdle EXCEPT !.current_time = now,
                                                         !.published = current_epoch_data,
                                                         !.outcome = "running"]]
            /\ pc' = [pc EXCEPT ![t] = "G_height"]
    /\ UNCHANGED <<chainVars, detVars, dbVars, svcVars, hist, calc, tot, mark_count, dispatched, ticks>>

\* height = await self.client.get_latest_height()
G_height(t) ==
    /\ pc[t] = "G_height"
    /\ \/ /\ cur' = [cur EXCEPT ![t].height = chain_height]
          /\ pc' = [pc EXCEPT ![t] = "G_epoch"]
       \/ CurFail(t)
    /\ UNCHANGED <<chainVars, detVars, dbVars, svcVars, hist, calc, tot, mark_count, dispatched, calls, ticks>>

\* _mark_epoch_finished_if_needed up to its first await: is there an epoch to finish
TransitionSeen(fresh_epoch_id) ==
    current_epoch_id # None /\ fresh_epoch_id > current_epoch_id

\* epoch_data = await self.client.get_current_epoch_participants()
G_epoch(t) ==
    /\ pc[t] = "G_epoch"
    /\ \/ /\ cur' = [cur EXCEPT ![t].epoch_id = latest_epoch,
                                ![t].old_epoch_id = IF TransitionSeen(latest_epoch)
                                                    THEN current_epoch_id ELSE None]
          /\ pc' = [pc EXCEPT ![t] = IF TransitionSeen(latest_epoch)
                                     THEN "G_isfin" ELSE "G_all"]
       \/ CurFail(t)
    /\ UNCHANGED <<chainVars, detVars, dbVars, svcVars, hist, calc, tot, mark_count, dispatched, calls, ticks>>

\* is_already_finished = await self.cache_db.is_epoch_finished(old_epoch_id)
\* if not: await self.get_historical_epoch_stats(old_epoch_id, calculate_rewards_sync=True)
G_isfin(t) ==
    /\ pc[t] = "G_isfin"
    /\ IF is_epoch_finished(cur[t].old_epoch_id)
       THEN /\ pc' = [pc EXCEPT ![t] = "G_all"]
            /\ UNCHANGED <<cur, hist>>
       ELSE /\ pc' = [pc EXCEPT ![t] = "H_isfin"]
            /\ cur' = [cur EXCEPT ![t].transition = TRUE]
            /\ hist' = [hist EXCEPT ![t] = HistNew(cur[t].old_epoch_id, None, TRUE)]
    /\ UNCHANGED <<chainVars, detVars, dbVars, svcVars, calc, tot, mark_count, dispatched, calls, ticks>>

\* all_participants_data = await self.client.get_all_participants(height=height)
G_all(t) ==
    /\ pc[t] = "G_all"
    /\ \/ /\ pc' = [pc EXCEPT ![t] = "G_save"]
          /\ cur' = [cur EXCEPT ![t].all_height = cur[t].height]
       \/ CurFail(t)
    /\ UNCHANGED <<chainVars, detVars, dbVars, svcVars, hist, calc, tot, mark_count, dispatched, calls, ticks>>

\* await self.cache_db.save_stats_batch(epoch_id, height, stats_for_saving), then
\* publish: current_epoch_id, current_epoch_data, last_fetch_time; return response
G_save(t) ==
    /\ pc[t] = "G_save"
    /\ inference_stats' = save_stats_batch(cur[t].epoch_id, cur[t].height)
    /\ current_epoch_id' = cur[t].epoch_id
    /\ current_epoch_data' = CurrentResponse(cur[t].epoch_id, cur[t].height, now)
    /\ last_fetch_time' = cur[t].current_time
    /\ cur' = [cur EXCEPT ![t].response = CurrentResponse(cur[t].epoch_id, cur[t].height, now),
                          ![t].outcome = "ok"]
    /\ pc' = [pc EXCEPT ![t] = "idle"]
    /\ UNCHANGED <<chainVars, detVars, epoch_status, epoch_total_rewards, hist, calc, tot, mark_count, dispatched, calls, ticks>>

Current(t) == G_start(t) \/ G_height(t) \/ G_epoch(t) \/ G_isfin(t) \/ G_all(t) \/ G_save(t)

\* get_current_epoch_stats() called with reload = False
Serve(t) == G_call(t) \/ G_height(t) \/ G_epoch(t) \/ G_isfin(t) \/ G_all(t) \/ G_save(t)

\* ------------------------------------------------------------ get_current_epoch_stats: the response

\* active_participants = [p for p in participants_list if p["index"] in active_indices],
\* then one ParticipantStats per entry that parses; merge_jail_and_health_data
\* keeps the list's order
BuildParticipants(participants_list, epoch_participants, malformed) ==
    LET active_indices == {epoch_participants[i] : i \in 1..Len(epoch_participants)}
        Kept(index) == index \in active_indices /\ index \notin malformed
    IN  SelectSeq(participants_list, Kept)

\* the response of a fresh fetch, from the epoch payload (epoch_group_id and
\* active_participants.participants), the all-participants payload and the set
\* of entries whose current_epoch_stats do not parse
BuildCurrentResponse ==
    /\ built = NotBuilt
    /\ \E e \in Epochs, epoch_participants \in EpochPayloads,
          participants_list \in AllPayloads, malformed \in SUBSET {"p1"} :
          built' = [epoch_group_id |-> e, epoch_participants |-> epoch_participants,
                    participant |-> participants_list, malformed |-> malformed,
                    epoch_id |-> e, is_current |-> TRUE,
                    participants |-> BuildParticipants(participants_list, epoch_participants,
                                                       malformed)]
    /\ UNCHANGED <<chainVars, dbVars, svcVars, pc, cur, hist, calc, tot, mark_count, dispatched,
                   calls, ticks, participant_warm_keys, participant_inferences, det, inf_call,
                   authz_empty, rowVars, rate, clientVars, loopVars, tableVars, auxVars>>

\* ------------------------------------------------------------ ParticipantStats (models.py)

\* the decimal string of a counter, as the chain reports it (a list of digits)
RECURSIVE DecimalString(_)
DecimalString(n) ==
    IF n < 10 THEN <<n>> ELSE Append(DecimalString(n \div 10), n % 10)

\* int(s) of a decimal string
RECURSIVE ParseInt(_)
ParseInt(s) ==
    IF Len(s) = 0 THEN 0
    ELSE 10 * ParseInt(SubSeq(s, 1, Len(s) - 1)) + s[Len(s)]

\* the values of a counter field of CurrentEpochStats
CounterStrings == {DecimalString(n) : n \in 0..MaxCount}

\* one unit of a rate: 0.0001, the fourth decimal
RateScale == 10000

\* round(x / y, 4) in units of 0.0001: the nearest multiple, a tie to the even
\* one (the float quotient rounds as the exact one for y below 160)
Round4(x, y) ==
    LET q == (RateScale * x) \div y
        r == (RateScale * x) % y
    IN  IF 2 * r < y THEN q
        ELSE IF 2 * r > y THEN q + 1
        ELSE IF q % 2 = 0 THEN q ELSE q + 1

\* missed over the inference count alone
missed_over_inferences(missed_requests, inference_count) ==
    LET missed == ParseInt(missed_requests)
        inferences == ParseInt(inference_count)
    IN  IF inferences = 0 THEN 0 ELSE Round4(missed, inferences)

\* ParticipantStats.missed_rate
missed_rate(missed_requests, inference_count) ==
    LET missed == ParseInt(missed_requests)
        inferences == ParseInt(inference_count)
        total == missed + inferences
    IN  IF total = 0 THEN 0 ELSE Round4(missed, total)

\* invalidated over itself plus the inference count
invalidated_over_total(invalidated_inferences, inference_count) ==
    LET invalidated == ParseInt(invalidated_inferences)
        inferences == ParseInt(inference_count)
    IN  IF invalidated + inferences = 0 THEN 0
        ELSE Round4(invalidated, invalidated + inferences)

\* ParticipantStats.invalidation_rate
invalidation_rate(invalidated_inferences, inference_count) ==
    LET invalidated == ParseInt(invalidated_inferences)
        inferences == ParseInt(inference_count)
    IN  IF inferences = 0 THEN 0 ELSE Round4(invalidated, inferences)

RateUnchanged ==
    UNCHANGED <<chainVars, dbVars, svcVars, pc, cur, hist, calc, tot, mark_count, dispatched,
                calls, ticks, participant_warm_keys, participant_inferences, det, inf_call,
                authz_empty, rowVars, built, clientVars, loopVars, tableVars, auxVars>>

\* the missed_rate field of a ParticipantStats of any counters is read
ComputeMissedRate ==
    /\ rate = NoRate
    /\ \E missed_requests \in CounterStrings, inference_count \in CounterStrings :
          rate' = [field |-> "missed_rate", numerator |-> ParseInt(missed_requests),
                   inference_count |-> ParseInt(inference_count),
                   value |-> missed_rate(missed_requests, inference_count)]
    /\ RateUnchanged

\* the invalidation_rate field of a ParticipantStats of any counters is read
ComputeInvalidationRate ==
    /\ rate = NoRate
    /\ \E invalidated_inferences \in CounterStrings, inference_count \in CounterStrings :
          rate' = [field |-> "invalidation_rate",
                   numerator |-> ParseInt(invalidated_inferences),
                   inference_count |-> ParseInt(inference_count),
                   value |-> invalidation_rate(invalidated_inferences, inference_count)]
    /\ RateUnchanged

\* ------------------------------------------------------------ upstream client (backend/client.py)

\* the rotation that never leaves the URL it stands on
_rotate_url_stuck(index, n) == index

\* the rotation that forgets the modulo
_rotate_url_unbounded(index, n) == index + 1

\* _rotate_url: the index advances by one modulo the URL count
_rotate_url(index, n) == (index + 1) % n

\* _get_current_url
_get_current_url == base_urls[current_url_index + 1]

\* what one HTTP attempt ends in: a 2xx answer, another status, a transport error
AttemptResults == {"2xx", "non-2xx", "error"}

Succeeded(result) == result = "2xx"

ClientUnchanged ==
    UNCHANGED <<chainVars, dbVars, svcVars, pc, cur, hist, calc, tot, mark_count, dispatched,
                ticks, participant_warm_keys, participant_inferences, det, inf_call,
                authz_empty, rowVars, built, rate, loopVars, tableVars,
                auxVars>>

\* GonkaClient(base_urls=[...]): any number of URLs from one on, index 0
Construct ==
    /\ base_urls = <<>>
    /\ \E n \in 1..MaxUrls : base_urls' = [i \in 1..n |-> i]
    /\ current_url_index' = 0
    /\ UNCHANGED <<request, calls>>
    /\ ClientUnchanged

\* a call of one endpoint begins; calls run one after the other
R_start ==
    /\ base_urls # <<>>
    /\ request.state # "running"
    /\ calls < MaxCalls
    /\ calls' = calls + 1
    /\ request' = [state |-> "running", first |-> current_url_index, attempts |-> <<>>]
    /\ UNCHANGED <<base_urls, current_url_index>>
    /\ ClientUnchanged

\* one attempt at the current URL: an answer ends the call and leaves the index;
\* a transport error or a non-2xx status advances the index, and the call
\* retries until it has failed once per URL
R_attempt ==
    /\ request.state = "running"
    /\ \E result \in AttemptResults :
          LET attempts == Append(request.attempts,
                                 [url |-> _get_current_url, result |-> result,
                                  ok |-> Succeeded(result)])
          IN  IF Succeeded(result)
              THEN /\ request' = [request EXCEPT !.state = "ok", !.attempts = attempts]
                   /\ UNCHANGED current_url_index
              ELSE /\ current_url_index' = _rotate_url(current_url_index, Len(base_urls))
                   /\ request' = [request EXCEPT
                                    !.state = IF Len(attempts) >= Len(base_urls)
                                              THEN "UpstreamUnavailable" ELSE "running",
                                    !.attempts = attempts]
    /\ UNCHANGED <<base_urls, calls>>
    /\ ClientUnchanged

\* ------------------------------------------------------------ polling loops (app.py)

\* an exception that no handler of the loop catches ends the task
AfterActionUncaught(outcome) == IF outcome = "raised" THEN "done" ELSE "sleep"

\* the try block of a loop: a return goes on to the sleep, an Exception is
\* caught and logged and goes on to the same sleep
AfterAction(outcome) == IF outcome = "raised" THEN "sleep_logged" ELSE "sleep"

Sleeping(t) == loop[t] \in {"sleep", "sleep_logged"}

\* a handler that takes whatever is raised
CaughtByAnyHandler(error) == TRUE

\* except Exception as e: takes an Exception; asyncio.CancelledError derives
\* from BaseException and passes
CaughtByLoop(error) == error = "Exception"

LoopUnchanged ==
    UNCHANGED <<chainVars, dbVars, svcVars, pc, cur, hist, calc, tot, mark_count, dispatched,
                calls, ticks, participant_warm_keys, participant_inferences, det, inf_call,
                authz_empty, rowVars, built, rate, clientVars, tableVars,
                auxVars>>

\* await asyncio.sleep(...) before the loop returns; the action begins
L_delay_end(t) ==
    /\ loop[t] = "delay"
    /\ t \notin cancelled
    /\ loop' = [loop EXCEPT ![t] = "action"]
    /\ UNCHANGED <<cancelled, life>>
    /\ LoopUnchanged

\* the awaited action returns or raises an Exception; the task goes on to
\* await asyncio.sleep(INTERVAL)
L_action_end(t) ==
    /\ loop[t] = "action"
    /\ t \notin cancelled
    /\ \E outcome \in {"returned", "raised"} :
          loop' = [loop EXCEPT ![t] = AfterAction(outcome)]
    /\ UNCHANGED <<cancelled, life>>
    /\ LoopUnchanged

\* the interval sleep returns; while True runs the action again
L_sleep_end(t) ==
    /\ Sleeping(t)
    /\ t \notin cancelled
    /\ loop' = [loop EXCEPT ![t] = "action"]
    /\ UNCHANGED <<cancelled, life>>
    /\ LoopUnchanged

\* a task whose cancel() was called is resumed with CancelledError at the await
\* it is suspended in; CancelledError is not an
\* Exception, so no except clause of the loop or of the action catches it
L_cancelled(t) ==
    /\ t \in cancelled
    /\ loop[t] # "done"
    /\ IF loop[t] = "action" /\ CaughtByLoop("CancelledError")
       THEN /\ loop' = [loop EXCEPT ![t] = "sleep_logged"]
            /\ cancelled' = cancelled \ {t}
       ELSE /\ loop' = [loop EXCEPT ![t] = "done"]
            /\ UNCHANGED cancelled
    /\ UNCHANGED life
    /\ LoopUnchanged

Loop(t) == L_delay_end(t) \/ L_action_end(t) \/ L_sleep_end(t) \/ L_cancelled(t)

\* lifespan after the yield: task.cancel() of the next task, then await task
S_cancel ==
    /\ life.state \in {"serving", "joined"}
    /\ life.i < Len(TaskOrder)
    /\ cancelled' = cancelled \cup {TaskOrder[life.i + 1]}
    /\ life' = [state |-> "awaiting", i |-> life.i + 1]
    /\ UNCHANGED loop
    /\ LoopUnchanged

\* await task returns with CancelledError, which the except clause takes
S_join ==
    /\ life.state = "awaiting"
    /\ loop[TaskOrder[life.i]] = "done"
    /\ life' = [state |-> IF life.i = Len(TaskOrder) THEN "stopped" ELSE "joined", i |-> life.i]
    /\ UNCHANGED <<loop, cancelled>>
    /\ LoopUnchanged

\* ------------------------------------------------------------ participant caches (database.py)

\* SELECT ... FROM participant_warm_keys WHERE epoch_id = ? AND participant_id = ?;
\* None when there is no row
get_warm_keys(e, p) ==
    IF participant_warm_keys[<<e, p>>] = {} THEN NoKeys
    ELSE KeyList(participant_warm_keys[<<e, p>>])

\* DELETE the rows of (e, p), INSERT one row per key, commit
save_warm_keys_batch(e, p, warm_keys) ==
    [participant_warm_keys EXCEPT ![<<e, p>>] = warm_keys]

EmptyMarker == "_EMPTY_MARKER_"

\* SQL NULL in the inference_id column
NullId == None

\* the row the empty-list branch inserts: VALUES (?, ?, NULL, '_EMPTY_MARKER_', ...)
SentinelRow == [inference_id |-> NullId, status |-> EmptyMarker]

InferenceRow(i) == [inference_id |-> i, status |-> "FINISHED"]

\* inference_id TEXT NOT NULL
NotNullOk(row) == row.inference_id # NullId

\* the rows the INSERT statements of one call try to add after the DELETE
InsertedRows(inferences) ==
    IF Cardinality(inferences) = 0 THEN {SentinelRow}
    ELSE {InferenceRow(i) : i \in inferences}

\* one connection, DELETE, INSERTs, commit: a failing INSERT raises before the
\* commit and the connection closes with the transaction rolled back
save_participant_inferences_batch(e, p, inferences) ==
    IF \A row \in InsertedRows(inferences) : NotNullOk(row)
    THEN [raised |-> FALSE,
          table |-> [participant_inferences EXCEPT ![<<e, p>>] = InsertedRows(inferences)]]
    ELSE [raised |-> TRUE, table |-> participant_inferences]

\* None without rows; marker rows are skipped; [] when only the marker is there
get_participant_inferences(e, p) ==
    LET rows == participant_inferences[<<e, p>>]
        has_marker == \E row \in rows : row.status = EmptyMarker
        results == {row.inference_id : row \in {r \in rows : r.status # EmptyMarker}}
    IN  IF rows = {} THEN NoKeys
        ELSE IF has_marker /\ results = {} THEN KeyList({})
        ELSE IF results # {} THEN KeyList(results)
        ELSE NoKeys

\* a caller of the store saves the inference list it fetched for (e, p)
SaveInferences ==
    /\ calls < MaxCalls
    /\ calls' = calls + 1
    /\ \E e \in Epochs, p \in ParticipantIds, inferences \in InferenceLists :
          LET r == save_participant_inferences_batch(e, p, inferences)
          IN  /\ participant_inferences' = r.table
              /\ inf_call' = [epoch_id |-> e, participant_id |-> p, inferences |-> inferences,
                              outcome |-> IF r.raised THEN "raised" ELSE "saved"]
    /\ UNCHANGED <<chainVars, dbVars, svcVars, pc, cur, hist, calc, tot, mark_count,
                   dispatched, ticks, participant_warm_keys, det, authz_empty, rowVars, fnVars>>

\* ------------------------------------------------------------ save_stats_batch row by row

Range(seq) == {seq[i] : i \in 1..Len(seq)}

StatsRow(e, h, p, b) == [epoch_id |-> e, height |-> h, participant_index |-> p, batch |-> b]

\* INSERT OR REPLACE: a row with the primary key (epoch_id, height,
\* participant_index) of the new row is replaced
InsertOrReplace(rows, row) ==
    {r \in rows : ~(/\ r.epoch_id = row.epoch_id
                    /\ r.height = row.height
                    /\ r.participant_index = row.participant_index)} \cup {row}

\* the rows of a transaction that other connections read before it commits
ReadUncommitted(pending) == pending

\* sqlite3 opens a transaction at the first INSERT of the connection: nothing
\* of it is read by another connection until db.commit()
VisibleBeforeCommit(pending) == {}

RECURSIVE ApplyRows(_, _)
ApplyRows(rows, pending) ==
    IF pending = {} THEN rows
    ELSE LET row == CHOOSE r \in pending : TRUE
         IN  ApplyRows(InsertOrReplace(rows, row), pending \ {row})

\* what a SELECT on another connection reads
ReadableRows == ApplyRows(stats_rows, VisibleBeforeCommit(conn.pending))

\* get_stats(epoch_id, height) at row level
get_stats_rows(e, h) == {r \in ReadableRows : r.epoch_id = e /\ r.height = h}

BatchUnchanged ==
    UNCHANGED <<chainVars, dbVars, svcVars, pc, cur, hist, calc, tot, mark_count, dispatched,
                calls, ticks, participant_warm_keys, participant_inferences, det, inf_call,
                authz_empty, fnVars>>

\* save_stats_batch(epoch_id, height, participants_stats) connects
B_connect ==
    /\ conn.state # "open"
    /\ batches < MaxBatches
    /\ batches' = batches + 1
    /\ \E e \in Epochs, participants_stats \in StatsBatches :
          conn' = [state |-> "open", epoch_id |-> e, height |-> BatchHeight,
                   batch |-> batches + 1, participants_stats |-> participants_stats,
                   todo |-> participants_stats, pending |-> {}]
    /\ UNCHANGED <<stats_rows, seen>>
    /\ BatchUnchanged

\* one turn of the loop: json.dumps and INSERT OR REPLACE inside the transaction;
\* an exception leaves the async with block, the connection closes uncommitted
B_insert ==
    /\ conn.state = "open"
    /\ conn.todo # <<>>
    /\ \E ok \in BOOLEAN :
          IF ok
          THEN conn' = [conn EXCEPT
                          !.pending = InsertOrReplace(conn.pending,
                                         StatsRow(conn.epoch_id, conn.height,
                                                  Head(conn.todo), conn.batch)),
                          !.todo = Tail(conn.todo)]
          ELSE conn' = [conn EXCEPT !.state = "raised", !.pending = {}, !.todo = <<>>]
    /\ UNCHANGED <<stats_rows, seen, batches>>
    /\ BatchUnchanged

\* await db.commit() after the loop
B_commit ==
    /\ conn.state = "open"
    /\ conn.todo = <<>>
    /\ stats_rows' = ApplyRows(stats_rows, conn.pending)
    /\ conn' = [conn EXCEPT !.state = "committed", !.pending = {}]
    /\ UNCHANGED <<seen, batches>>
    /\ BatchUnchanged

\* a get_stats(epoch_id, height) on its own connection, at any moment
R_get_stats ==
    /\ \E e \in Epochs :
          seen' = [epoch_id |-> e, height |-> BatchHeight, rows |-> get_stats_rows(e, BatchHeight),
                   batch |-> conn.batch, state |-> conn.state,
                   inserted |-> Len(conn.participants_stats) - Len(conn.todo),
                   participants_stats |-> conn.participants_stats]
    /\ seen' # seen
    /\ UNCHANGED <<stats_rows, conn, batches>>
    /\ BatchUnchanged

\* ------------------------------------------------------------ get_participant_details

DetUnchanged ==
    UNCHANGED <<chainVars, dbVars, svcVars, cur, hist, calc, tot, mark_count,
                dispatched, ticks, participant_inferences, inf_call, rowVars, fnVars>>

\* an API request calls get_participant_details(participant_id, epoch_id); the
\* stages before the warm keys (latest epoch, epoch stats, rewards, seed) either
\* find the participant or end the call with None
D_start(t) ==
    /\ t \in DetailReaders
    /\ pc[t] = "idle"
    /\ calls < MaxCalls
    /\ calls' = calls + 1
    /\ \E e \in Epochs, p \in ParticipantIds, found \in BOOLEAN :
          IF found
          THEN /\ det' = [det EXCEPT ![t] = DetNew(e, p)]
               /\ pc' = [pc EXCEPT ![t] = "D_getkeys"]
          ELSE /\ det' = [det EXCEPT ![t] = [DetNew(e, p) EXCEPT !.outcome = "none"]]
               /\ pc' = pc
    /\ UNCHANGED <<participant_warm_keys, authz_empty>>
    /\ DetUnchanged

\* an API request calls get_participant_details(participant_id, epoch_id, height)
D_call(t) ==
    /\ t \in DetailReaders
    /\ pc[t] = "idle"
    /\ calls < MaxCalls
    /\ calls' = calls + 1
    /\ \E e \in Epochs, p \in ParticipantIds, h \in RequestHeights \cup {None} :
          det' = [det EXCEPT ![t] = [DetNew(e, p) EXCEPT !.height = h]]
    /\ pc' = [pc EXCEPT ![t] = "D_latest"]
    /\ UNCHANGED <<participant_warm_keys, authz_empty>>
    /\ DetUnchanged

\* except Exception as e: logger.error(...); return None
DetCaught(t, kind) ==
    /\ det' = [det EXCEPT ![t].caught = kind, ![t].outcome = "none"]
    /\ pc' = [pc EXCEPT ![t] = "idle"]

\* latest_info = await self.client.get_latest_epoch(); is_current = (epoch_id ==
\* current_epoch_id); the historical branch enters get_historical_epoch_stats(
\* epoch_id, height). The current branch (get_current_epoch_stats) is kept to its
\* result: the participant is in the stats or not, or the call raised.
D_latest(t) ==
    /\ pc[t] = "D_latest"
    /\ LET f == det[t]
       IN  \/ /\ DetCaught(t, "UpstreamUnavailable")
              /\ hist' = hist
           \/ /\ f.epoch_id = latest_epoch
              /\ hist' = hist
              /\ \/ DetCaught(t, "UpstreamUnavailable")
                 \/ /\ det' = [det EXCEPT ![t].outcome = "none"]
                    /\ pc' = [pc EXCEPT ![t] = "idle"]
                 \/ /\ det' = det
                    /\ pc' = [pc EXCEPT ![t] = "D_getkeys"]
           \/ /\ f.epoch_id # latest_epoch
              /\ hist' = [hist EXCEPT ![t] = HistNew(f.epoch_id, f.height, FALSE)]
              /\ det' = det
              /\ pc' = [pc EXCEPT ![t] = "H_isfin"]
    /\ UNCHANGED <<chainVars, dbVars, svcVars, cur, calc, tot, mark_count, dispatched,
                   ticks, calls, participant_warm_keys, participant_inferences,
                   inf_call, authz_empty, rowVars, fnVars>>

\* get_historical_epoch_stats has returned or raised: an exception lands in the
\* except clause of get_participant_details; otherwise the participant is looked
\* up in stats.participants (if not participant: return None)
D_stats(t) ==
    /\ pc[t] = "D_stats"
    /\ IF hist[t].outcome # "ok"
       THEN DetCaught(t, hist[t].outcome)
       ELSE \/ /\ det' = [det EXCEPT ![t].outcome = "none"]
               /\ pc' = [pc EXCEPT ![t] = "idle"]
            \/ /\ det' = det
               /\ pc' = [pc EXCEPT ![t] = "D_getkeys"]
    /\ UNCHANGED <<participant_warm_keys, authz_empty, calls>>
    /\ DetUnchanged

\* warm_keys_data = await self.cache_db.get_warm_keys(epoch_id, participant_id)
D_getkeys(t) ==
    /\ pc[t] = "D_getkeys"
    /\ LET f == det[t]
           warm_keys_data == get_warm_keys(f.epoch_id, f.participant_id)
       IN  /\ det' = [det EXCEPT ![t].warm_keys_data = warm_keys_data]
           /\ pc' = [pc EXCEPT ![t] = IF warm_keys_data.is_none THEN "D_authz" ELSE "D_rest"]
    /\ UNCHANGED <<participant_warm_keys, authz_empty, calls>>
    /\ DetUnchanged

\* warm_keys_raw = await self.client.get_authz_grants(participant_id): a non-empty
\* answer goes on to be saved, an empty answer or an exception gives []
D_authz(t) ==
    /\ pc[t] = "D_authz"
    /\ LET f == det[t]
       IN  \E ok \in BOOLEAN :
             LET warm_keys_raw == AuthzGrants(f.participant_id)
             IN  IF ok /\ Truthy(Cardinality(warm_keys_raw))
                 THEN /\ det' = [det EXCEPT ![t].warm_keys_raw = warm_keys_raw,
                                            ![t].fetched = TRUE]
                      /\ pc' = [pc EXCEPT ![t] = "D_savekeys"]
                      /\ UNCHANGED authz_empty
                 ELSE /\ det' = [det EXCEPT ![t].warm_keys_data = KeyList({}),
                                            ![t].fetched = TRUE]
                      /\ pc' = [pc EXCEPT ![t] = "D_rest"]
                      /\ authz_empty' = IF ok
                                        THEN authz_empty \cup {<<f.epoch_id, f.participant_id>>}
                                        ELSE authz_empty
    /\ UNCHANGED <<participant_warm_keys, calls>>
    /\ DetUnchanged

\* await self.cache_db.save_warm_keys_batch(epoch_id, participant_id, warm_keys_raw)
D_savekeys(t) ==
    /\ pc[t] = "D_savekeys"
    /\ LET f == det[t]
       IN  /\ participant_warm_keys' =
                 save_warm_keys_batch(f.epoch_id, f.participant_id, f.warm_keys_raw)
           /\ det' = [det EXCEPT ![t].warm_keys_data = KeyList(f.warm_keys_raw)]
    /\ pc' = [pc EXCEPT ![t] = "D_rest"]
    /\ UNCHANGED <<authz_empty, calls>>
    /\ DetUnchanged

\* the stages after the warm keys (hardware nodes, ML nodes) and the response
D_rest(t) ==
    /\ pc[t] = "D_rest"
    /\ det' = [det EXCEPT ![t].outcome = "returned"]
    /\ pc' = [pc EXCEPT ![t] = "idle"]
    /\ UNCHANGED <<participant_warm_keys, authz_empty, calls>>
    /\ DetUnchanged

Details(t) == D_getkeys(t) \/ D_authz(t) \/ D_savekeys(t) \/ D_rest(t)

\* ------------------------------------------------------------ the actions of the polling tasks

\* what the actions below leave alone: the coroutine frames of the other sections
TaskUnchanged ==
    UNCHANGED <<pc, cur, hist, calc, tot, mark_count, dispatched, calls, ticks,
                participant_inferences, det, inf_call, authz_empty, rowVars, built, rate,
                clientVars, loopVars, auxVars>>

\* a polling task begins an action (one iteration of its while True loop)
Begins ==
    /\ runs < MaxRuns
    /\ runs' = runs + 1

\* task k has executed a save on each table of written
Writes(k, written) ==
    writers' = [x \in Tables |-> IF x \in written THEN writers[x] \cup {k} ELSE writers[x]]

\* get_hardware_nodes(participant): p2 runs one node, p1 none
HardwareNodes(p) == IF p = "p2" THEN {"n1"} ELSE {}

\* epochPerformanceSummary.claimed: p1 has claimed its reward of every settled epoch
Claimed(e, p) == e \in settled /\ p = "p1"

\* CacheDB.get_jail_status(epoch_id): the rows of the epoch, None when there is none
get_jail_status(e) == jail_status[e]

\* CacheDB.save_jail_status_batch: INSERT OR REPLACE one row per status, commit
save_jail_status_batch(e, statuses) == [jail_status EXCEPT ![e] = @ \cup statuses]

\* CacheDB.save_node_health_batch: INSERT OR REPLACE one row per participant, commit
save_node_health_batch(statuses) == node_health \cup statuses

\* CacheDB.get_reward(epoch_id, participant_id)
get_reward(e, p) == participant_rewards[<<e, p>>]

\* the row of participant_rewards made from epoch_performance_summary(e, p)
RewardRow(e, p) == [rewarded_coins |-> epoch_performance_summary(e, p), claimed |-> Claimed(e, p)]

\* CacheDB.save_reward_batch: INSERT OR REPLACE one row per key, commit
save_reward_batch(keys) ==
    [k \in Epochs \X ParticipantIds |->
        IF k \in keys THEN RewardRow(k[1], k[2]) ELSE participant_rewards[k]]

\* CacheDB.get_hardware_nodes: the rows of (e, p); no row reads as None
get_hardware_nodes(e, p) ==
    IF participant_hardware_nodes[<<e, p>>] = {} THEN NoKeys
    ELSE KeyList(participant_hardware_nodes[<<e, p>>])

\* CacheDB.save_hardware_nodes_batch: DELETE the rows of (e, p), INSERT one row
\* per node, commit
save_hardware_nodes_batch(e, p, hardware_nodes) ==
    [participant_hardware_nodes EXCEPT ![<<e, p>>] = hardware_nodes]

\* the validators found for the active participants: every participant or none
ValidatorSets == {{}, ParticipantIds}

\* fetch_and_cache_jail_statuses(epoch_id, height, active_participants): one
\* save_jail_status_batch at the end; an exception before it is logged
\* poll_jail_status: the action of app.py
poll_jail_status ==
    /\ Begins
    /\ \E ok \in BOOLEAN, found \in ValidatorSets :
          LET jail_statuses == IF ok THEN found ELSE {}
          IN  /\ jail_status' = IF ok THEN save_jail_status_batch(latest_epoch, jail_statuses)
                                ELSE jail_status
              /\ Writes("poll_jail_status",
                        IF jail_statuses # {} THEN {"jail_status"} ELSE {})
    /\ UNCHANGED <<chainVars, dbVars, svcVars, participant_warm_keys, node_health,
                   participant_rewards, participant_hardware_nodes, ensure, sweep>>
    /\ TaskUnchanged

\* poll_node_health: fetch_and_cache_node_health(active_participants), one
\* save_node_health_batch at the end
poll_node_health ==
    /\ Begins
    /\ \E ok \in BOOLEAN :
          /\ node_health' = IF ok THEN save_node_health_batch(ParticipantIds) ELSE node_health
          /\ Writes("poll_node_health", IF ok THEN {"node_health"} ELSE {})
    /\ UNCHANGED <<chainVars, dbVars, svcVars, participant_warm_keys, jail_status,
                   participant_rewards, participant_hardware_nodes, ensure, sweep>>
    /\ TaskUnchanged

\* for epoch_offset in range(1, 7): check_epoch = current_epoch - epoch_offset
RewardWindow == 6

\* poll_participant_rewards: the keys it fetches (every participant and window
\* epoch whose cached reward is not claimed), one save_reward_batch at the end
RewardsToSave ==
    {k \in Epochs \X ParticipantIds :
        /\ k[1] < latest_epoch /\ k[1] >= latest_epoch - RewardWindow
        /\ ~get_reward(k[1], k[2]).claimed}

\* poll_rewards: service.poll_participant_rewards
poll_participant_rewards ==
    /\ Begins
    /\ \E ok \in BOOLEAN :
          LET rewards_to_save == IF ok THEN RewardsToSave ELSE {}
          IN  /\ participant_rewards' = save_reward_batch(rewards_to_save)
              /\ Writes("poll_rewards",
                        IF rewards_to_save # {} THEN {"participant_rewards"} ELSE {})
    /\ UNCHANGED <<chainVars, dbVars, svcVars, participant_warm_keys, jail_status, node_health,
                   participant_hardware_nodes, ensure, sweep>>
    /\ TaskUnchanged

\* total_ugnk of _calculate_and_cache_total_rewards(e) when every summary is fetched
RECURSIVE SumRewards(_, _)
SumRewards(e, i) ==
    IF i = 0 THEN 0 ELSE SumRewards(e, i - 1) + epoch_performance_summary(e, Participants[i])

\* poll_epoch_total_rewards: the epochs of the window whose cached total is not positive
TotalsPolled ==
    {e \in Epochs :
        /\ e < latest_epoch /\ e >= latest_epoch - PollWindow
        /\ ~(get_epoch_total_rewards(e) # None /\ get_epoch_total_rewards(e) > 0)}

\* the polled epochs whose computation reaches its saves (line 817 does not return)
TotalsSaved ==
    {e \in TotalsPolled : ~ZeroSumSkip(SumRewards(e, Len(Participants)), Len(Participants))}

\* poll_epoch_total_rewards: per polled epoch delete_epoch_total_rewards of a
\* cached 0, then _calculate_and_cache_total_rewards: save_reward_batch(
\* rewards_batch) and save_epoch_total_rewards
poll_epoch_total_rewards ==
    /\ Begins
    /\ \E ok \in BOOLEAN :
          LET polled == IF ok THEN TotalsPolled ELSE {}
              saved == IF ok THEN TotalsSaved ELSE {}
              deleted == {e \in polled : get_epoch_total_rewards(e) = 0}
          IN  /\ epoch_total_rewards' =
                     [e \in Epochs |->
                         IF e \in saved THEN TotalGnk(SumRewards(e, Len(Participants)))
                         ELSE IF e \in deleted THEN None
                         ELSE epoch_total_rewards[e]]
              /\ participant_rewards' = save_reward_batch(saved \X ParticipantIds)
              /\ Writes("poll_epoch_total_rewards",
                        (IF saved # {} THEN {"participant_rewards"} ELSE {})
                        \cup (IF saved \cup deleted # {} THEN {"epoch_total_rewards"} ELSE {}))
    /\ UNCHANGED <<chainVars, inference_stats, epoch_status, svcVars, participant_warm_keys,
                   jail_status, node_health, participant_hardware_nodes, ensure, sweep>>
    /\ TaskUnchanged

\* poll_current_epoch: get_current_epoch_stats(reload=True) in an iteration in
\* which _mark_epoch_finished_if_needed has nothing to do (the transition path is
\* HistoricalTransition). merge_jail_and_health_data fills jail_status and
\* node_health inline when it reads no row; then save_stats_batch, the publication
\* and asyncio.create_task(self._ensure_participant_caches(epoch_id, ...))
poll_current_epoch ==
    /\ Begins
    /\ ~(TransitionSeen(latest_epoch) /\ ~is_epoch_finished(current_epoch_id))
    /\ \/ UNCHANGED <<dbVars, svcVars, jail_status, node_health, ensure, writers>>
       \/ \E jail_ok \in BOOLEAN, found \in ValidatorSets :
             LET epoch_id == latest_epoch
                 height == chain_height
                 fetch_jail == get_jail_status(epoch_id) = {}
                 jail_statuses == IF fetch_jail /\ jail_ok THEN found ELSE {}
                 fetch_health == node_health = {}
             IN  /\ jail_status' = save_jail_status_batch(epoch_id, jail_statuses)
                 /\ node_health' = IF fetch_health THEN save_node_health_batch(ParticipantIds)
                                   ELSE node_health
                 /\ inference_stats' = save_stats_batch(epoch_id, height)
                 /\ current_epoch_id' = epoch_id
                 /\ current_epoch_data' = CurrentResponse(epoch_id, height, now)
                 /\ last_fetch_time' = now
                 /\ ensure' = ensure \cup {epoch_id}
                 /\ Writes("poll_current_epoch",
                           {"inference_stats"}
                           \cup (IF jail_statuses # {} THEN {"jail_status"} ELSE {})
                           \cup (IF fetch_health THEN {"node_health"} ELSE {}))
                 /\ UNCHANGED <<epoch_status, epoch_total_rewards>>
    /\ UNCHANGED <<chainVars, participant_warm_keys, participant_rewards,
                   participant_hardware_nodes, sweep>>
    /\ TaskUnchanged

\* _ensure_participant_caches(epoch_id, participants), the task poll_current_epoch
\* created: per participant the reward, the warm keys and the hardware nodes
\* that read as None are fetched and saved; a fetch that raises is skipped
_ensure_participant_caches ==
    /\ \E epoch_id \in ensure, rewards_ok, keys_ok, nodes_ok \in BOOLEAN :
          LET rewards == {k \in {epoch_id} \X ParticipantIds :
                             rewards_ok /\ get_reward(k[1], k[2]) = NoReward}
              keys == {p \in ParticipantIds : keys_ok /\ get_warm_keys(epoch_id, p).is_none}
              nodes == {p \in ParticipantIds :
                           nodes_ok /\ get_hardware_nodes(epoch_id, p).is_none}
          IN  /\ ensure' = ensure \ {epoch_id}
              /\ participant_rewards' = save_reward_batch(rewards)
              /\ participant_warm_keys' =
                     [k \in Epochs \X ParticipantIds |->
                         IF k[1] = epoch_id /\ k[2] \in keys THEN AuthzGrants(k[2])
                         ELSE participant_warm_keys[k]]
              /\ participant_hardware_nodes' =
                     [k \in Epochs \X ParticipantIds |->
                         IF k[1] = epoch_id /\ k[2] \in nodes THEN HardwareNodes(k[2])
                         ELSE participant_hardware_nodes[k]]
              /\ Writes("poll_current_epoch",
                        (IF rewards # {} THEN {"participant_rewards"} ELSE {})
                        \cup (IF keys # {} THEN {"participant_warm_keys"} ELSE {})
                        \cup (IF nodes # {} THEN {"participant_hardware_nodes"} ELSE {}))
    /\ UNCHANGED <<chainVars, dbVars, svcVars, jail_status, node_health, sweep, runs>>
    /\ TaskUnchanged

\* ------------------------------------------------------------ poll_warm_keys, poll_hardware_nodes

\* the table task k writes
SweepTable(k) ==
    IF k = "poll_warm_keys" THEN participant_warm_keys ELSE participant_hardware_nodes

\* get_authz_grants(participant_id) / get_hardware_nodes(participant_id)
SweepFetch(k, p) == IF k = "poll_warm_keys" THEN AuthzGrants(p) ELSE HardwareNodes(p)

SweepUnchanged ==
    /\ UNCHANGED <<chainVars, dbVars, svcVars, jail_status, node_health, participant_rewards,
                   ensure>>
    /\ TaskUnchanged

\* the action is over: ended says how
SweepEnds(k, ended) ==
    sweep' = [sweep EXCEPT ![k].state = "idle", ![k].todo = <<>>, ![k].ended = ended]

\* the for loop goes to its next participant, or the action completes
SweepNext(k) ==
    IF Len(sweep[k].todo) > 1
    THEN sweep' = [sweep EXCEPT ![k].state = "fetch", ![k].todo = Tail(@)]
    ELSE SweepEnds(k, "completed")

\* the action begins: epoch_data = await self.client.get_current_epoch_participants()
W_start(k) ==
    /\ sweep[k].state = "idle"
    /\ Begins
    /\ sweep' = [sweep EXCEPT ![k] = [SweepIdle EXCEPT !.state = "epoch",
                                                        !.before = SweepTable(k),
                                                        !.ended = "running"]]
    /\ UNCHANGED <<participant_warm_keys, participant_hardware_nodes, writers>>
    /\ SweepUnchanged

\* the epoch payload arrives, or the call raises into the outer except clause
W_epoch(k) ==
    /\ sweep[k].state = "epoch"
    /\ \/ sweep' = [sweep EXCEPT ![k].state = "fetch", ![k].current_epoch = latest_epoch,
                                 ![k].todo = Participants]
       \/ SweepEnds(k, "failed")
    /\ UNCHANGED <<participant_warm_keys, participant_hardware_nodes, writers, runs>>
    /\ SweepUnchanged

\* warm_keys = await self.client.get_authz_grants(participant_id) (hardware_nodes
\* = await self.client.get_hardware_nodes(participant_id)); an exception is
\* caught inside the for loop, which continues
W_fetch(k) ==
    /\ sweep[k].state = "fetch"
    /\ \/ sweep' = [sweep EXCEPT ![k].state = "save",
                                 ![k].fetched = SweepFetch(k, Head(sweep[k].todo))]
       \/ SweepNext(k)
    /\ UNCHANGED <<participant_warm_keys, participant_hardware_nodes, writers, runs>>
    /\ SweepUnchanged

\* await self.cache_db.save_warm_keys_batch(current_epoch, participant_id, warm_keys)
\* (save_hardware_nodes_batch), inside the for loop
W_save(k) ==
    /\ sweep[k].state = "save"
    /\ LET f == sweep[k]
           p == Head(f.todo)
       IN  /\ participant_warm_keys' =
                  IF k = "poll_warm_keys" THEN save_warm_keys_batch(f.current_epoch, p, f.fetched)
                  ELSE participant_warm_keys
           /\ participant_hardware_nodes' =
                  IF k = "poll_hardware_nodes"
                  THEN save_hardware_nodes_batch(f.current_epoch, p, f.fetched)
                  ELSE participant_hardware_nodes
    /\ Writes(k, {IF k = "poll_warm_keys" THEN "participant_warm_keys"
                  ELSE "participant_hardware_nodes"})
    /\ SweepNext(k)
    /\ UNCHANGED runs
    /\ SweepUnchanged

\* task.cancel() at shutdown: CancelledError is raised at the await the action
\* is suspended in and passes both except Exception clauses
W_cancelled(k) ==
    /\ sweep[k].state \in {"epoch", "fetch", "save"}
    /\ IF CaughtByLoop("CancelledError")
       THEN IF sweep[k].state = "epoch" THEN SweepEnds(k, "failed") ELSE SweepNext(k)
       ELSE SweepEnds(k, "cancelled")
    /\ UNCHANGED <<participant_warm_keys, participant_hardware_nodes, writers, runs>>
    /\ SweepUnchanged

Sweep(k) == W_start(k) \/ W_epoch(k) \/ W_fetch(k) \/ W_save(k) \/ W_cancelled(k)

\* ------------------------------------------------------------ poll_participant_rewards step by step

\* the turns of the two nested loops: participants outside, epoch_offset inside
RewardTurns == Len(Participants) * RewardWindow

\* participant_id and epoch_offset of turn i
TurnParticipant(i) == Participants[((i - 1) \div RewardWindow) + 1]
TurnOffset(i) == ((i - 1) % RewardWindow) + 1

\* check_epoch = current_epoch - epoch_offset
CheckEpoch(current_epoch, i) == current_epoch - TurnOffset(i)

\* if check_epoch <= 0: continue  -- the first turn from i on that reaches get_reward
NextTurn(current_epoch, i) ==
    LET reached == {j \in i..RewardTurns : CheckEpoch(current_epoch, j) > 0}
    IN  IF reached = {} THEN RewardTurns + 1
        ELSE CHOOSE j \in reached : \A x \in reached : j <= x

\* poll_participant_rewards that requests the summary whatever the cached row says
SkipsNothing(cached_reward) == FALSE

\* if cached_reward and cached_reward["claimed"]: continue
SkipsClaimed(cached_reward) == cached_reward # NoReward /\ cached_reward.claimed

\* CacheDB.save_reward_batch(rewards): INSERT OR REPLACE one row per entry, commit
save_rewards(rewards) ==
    [k \in Epochs \X ParticipantIds |->
        IF \E r \in rewards : r.epoch_id = k[1] /\ r.participant_id = k[2]
        THEN LET r == CHOOSE x \in rewards : x.epoch_id = k[1] /\ x.participant_id = k[2]
             IN  [rewarded_coins |-> r.rewarded_coins, claimed |-> r.claimed]
        ELSE participant_rewards[k]]

RewUnchanged ==
    UNCHANGED <<chainVars, dbVars, svcVars, pc, cur, hist, calc, tot, mark_count, dispatched,
                calls, ticks, participant_warm_keys, participant_inferences, det, inf_call,
                authz_empty, rowVars, built, rate, clientVars, loopVars, listVars,
                ml_node, resolved, jail_status, node_health, participant_hardware_nodes, ensure, sweep>>

\* height = get_latest_height(); epoch_data = get_current_epoch_participants();
\* an exception ends the action in the outer except
P_start ==
    /\ rew.state \in {"idle", "done"}
    /\ Begins
    /\ \E ok \in BOOLEAN :
          rew' = IF ok
                 THEN [RewIdle EXCEPT !.state = "get", !.current_epoch = latest_epoch,
                                      !.i = NextTurn(latest_epoch, 1)]
                 ELSE [RewIdle EXCEPT !.state = "done"]
    /\ UNCHANGED <<participant_rewards, writers>>
    /\ RewUnchanged

\* cached_reward = await get_reward(check_epoch, participant_id) and the continue
P_get ==
    /\ rew.state = "get"
    /\ rew.i <= RewardTurns
    /\ LET key == <<CheckEpoch(rew.current_epoch, rew.i), TurnParticipant(rew.i)>>
           cached_reward == get_reward(key[1], key[2])
           read == IF cached_reward # NoReward /\ cached_reward.claimed
                   THEN rew.cached_claimed \cup {key} ELSE rew.cached_claimed
       IN  rew' = IF SkipsClaimed(cached_reward)
                  THEN [rew EXCEPT !.cached_claimed = read,
                                   !.i = NextTurn(rew.current_epoch, rew.i + 1)]
                  ELSE [rew EXCEPT !.cached_claimed = read, !.state = "fetch"]
    /\ UNCHANGED <<participant_rewards, writers, runs>>
    /\ RewUnchanged

\* summary = await get_epoch_performance_summary(check_epoch, participant_id);
\* the row is appended, or the inner except logs and continues
P_fetch ==
    /\ rew.state = "fetch"
    /\ LET key == <<CheckEpoch(rew.current_epoch, rew.i), TurnParticipant(rew.i)>>
           row == [epoch_id |-> key[1], participant_id |-> key[2],
                   rewarded_coins |-> RewardRow(key[1], key[2]).rewarded_coins,
                   claimed |-> RewardRow(key[1], key[2]).claimed]
       IN  \E ok \in BOOLEAN :
              rew' = [rew EXCEPT
                        !.state = "get",
                        !.requested = @ \cup {key},
                        !.rewards_to_save = IF ok THEN @ \cup {row} ELSE @,
                        !.i = NextTurn(rew.current_epoch, rew.i + 1)]
    /\ UNCHANGED <<participant_rewards, writers, runs>>
    /\ RewUnchanged

\* if rewards_to_save: await save_reward_batch(rewards_to_save)
P_save ==
    /\ rew.state = "get"
    /\ rew.i > RewardTurns
    /\ rew' = [rew EXCEPT !.state = "done"]
    /\ participant_rewards' = IF rew.rewards_to_save # {} THEN save_rewards(rew.rewards_to_save)
                              ELSE participant_rewards
    /\ Writes("poll_rewards", IF rew.rewards_to_save # {} THEN {"participant_rewards"} ELSE {})
    /\ UNCHANGED runs
    /\ RewUnchanged

PollRewards ==
    \/ P_start
    \/ P_get
    \/ P_fetch
    \/ P_save

\* ------------------------------------------------------------ get_participant_details: ml_nodes

\* local_id of the registry rows, node_id of the epoch payload
NodeIds == {"n1", "n2"}

\* poc_weight as the chain reports it
Weights == 0..MaxWeight

\* _extract_ml_nodes_map: node_id -> poc_weight for the nodes that carry both
MlNodesMaps == UNION {[ids -> Weights] : ids \in SUBSET NodeIds}

\* dict.get(key): None for a missing key
DictGet(d, key) == IF key \in DOMAIN d THEN d[key] ELSE None

\* poc_weight = ml_nodes_map.get(local_id) or node.get("poc_weight")
PocWeight(ml_nodes_map, local_id, registry) ==
    IF Truthy(DictGet(ml_nodes_map, local_id)) THEN DictGet(ml_nodes_map, local_id)
    ELSE registry

\* one turn of the loop over hardware_nodes_data that fills ml_nodes
BuildMLNode ==
    /\ ml_node = NoNode
    /\ \E ml_nodes_map \in MlNodesMaps, local_id \in NodeIds, registry \in Weights \cup {None} :
          ml_node' = [local_id |-> local_id, ml_nodes_map |-> ml_nodes_map,
                      registry |-> registry,
                      poc_weight |-> PocWeight(ml_nodes_map, local_id, registry)]
    /\ UNCHANGED <<chainVars, dbVars, svcVars, pc, cur, hist, calc, tot, mark_count, dispatched,
                   calls, ticks, participant_warm_keys, participant_inferences, det, inf_call,
                   authz_empty, rowVars, built, rate, clientVars, loopVars, tableVars,
                   listVars, rew, resolved>>

\* ------------------------------------------------------------ save_*_batch of a list, row by row

\* the per-participant list tables and the column that completes their primary key
ListTables == {"participant_warm_keys", "participant_hardware_nodes", "participant_inferences"}

\* SQL NULL in the key column
Null == "NULL"

\* values of grantee_address, local_id or inference_id
ListItems == {"a", "b"}

\* the lists handed to a save_*_batch: empty, with one or two entries, with a
\* repeated key and with a missing key
ItemLists == {<<>>, <<"a">>, <<"b">>, <<"a", "b">>, <<"b", "a">>, <<"a", "a">>, <<"a", Null>>}

ListRow(table, e, p, item, n) ==
    [table |-> table, epoch_id |-> e, participant_id |-> p, item |-> item, save |-> n]

\* WHERE epoch_id = ? AND participant_id = ? on one table
KeyRows(rows, table, e, p) ==
    {r \in rows : r.table = table /\ r.epoch_id = e /\ r.participant_id = p}

\* the INSERT statements of one call: one per entry, and for an empty list of
\* inferences the marker row, whose inference_id is NULL
ListStatements(table, items) ==
    IF table = "participant_inferences" /\ Len(items) = 0 THEN <<Null>> ELSE items

\* a SELECT on another connection that reads inside the writer's open transaction
ListReadUncommitted(committed, working, begun) == IF begun THEN working ELSE committed

\* sqlite3 opens a transaction at the DELETE: another connection reads the
\* committed rows until db.commit()
ListVisible(committed, working, begun) == committed

\* NOT NULL and PRIMARY KEY (epoch_id, participant_id, <key column>) on a plain INSERT
InsertRejected(rows, row) ==
    \/ row.item = Null
    \/ \E r \in rows : /\ r.table = row.table
                        /\ r.epoch_id = row.epoch_id
                        /\ r.participant_id = row.participant_id
                        /\ r.item = row.item

ListUnchanged ==
    UNCHANGED <<chainVars, dbVars, svcVars, pc, cur, hist, calc, tot, mark_count, dispatched,
                calls, ticks, participant_warm_keys, participant_inferences, det, inf_call,
                authz_empty, rowVars, built, rate, clientVars, loopVars, tableVars, rew,
                ml_node, resolved>>

\* save_*_batch(epoch_id, participant_id, items) connects
LB_connect ==
    /\ list_conn.state # "open"
    /\ saves < MaxBatches
    /\ saves' = saves + 1
    /\ \E table \in ListTables, e \in Epochs, p \in ParticipantIds, items \in ItemLists :
          list_conn' = [state |-> "open", table |-> table, epoch_id |-> e,
                        participant_id |-> p, items |-> items, save |-> saves + 1,
                        previous |-> KeyRows(list_rows, table, e, p), deleted |-> FALSE,
                        todo |-> ListStatements(table, items), rows |-> {}]
    /\ UNCHANGED <<list_rows, list_seen>>
    /\ ListUnchanged

\* DELETE FROM <table> WHERE epoch_id = ? AND participant_id = ?
LB_delete ==
    /\ list_conn.state = "open"
    /\ ~list_conn.deleted
    /\ list_conn' = [list_conn EXCEPT
                       !.deleted = TRUE,
                       !.rows = list_rows \ KeyRows(list_rows, list_conn.table,
                                                    list_conn.epoch_id,
                                                    list_conn.participant_id)]
    /\ UNCHANGED <<list_rows, list_seen, saves>>
    /\ ListUnchanged

\* one INSERT inside the transaction; a rejected INSERT raises, the async with
\* block is left and the connection closes uncommitted
LB_insert ==
    /\ list_conn.state = "open"
    /\ list_conn.deleted
    /\ list_conn.todo # <<>>
    /\ LET row == ListRow(list_conn.table, list_conn.epoch_id, list_conn.participant_id,
                          Head(list_conn.todo), list_conn.save)
       IN  IF InsertRejected(list_conn.rows, row)
           THEN list_conn' = [list_conn EXCEPT !.state = "raised", !.rows = {}]
           ELSE list_conn' = [list_conn EXCEPT !.rows = list_conn.rows \cup {row},
                                               !.todo = Tail(list_conn.todo)]
    /\ UNCHANGED <<list_rows, list_seen, saves>>
    /\ ListUnchanged

\* await db.commit() after the INSERTs
LB_commit ==
    /\ list_conn.state = "open"
    /\ list_conn.deleted
    /\ list_conn.todo = <<>>
    /\ list_rows' = list_conn.rows
    /\ list_conn' = [list_conn EXCEPT !.state = "committed", !.rows = {}]
    /\ UNCHANGED <<list_seen, saves>>
    /\ ListUnchanged

\* get_warm_keys, get_hardware_nodes or get_participant_inferences of the key of
\* the latest save_*_batch, on its own connection, at any moment
LR_lookup ==
    /\ list_conn.state # "closed"
    /\ list_seen' = [rows |-> KeyRows(ListVisible(list_rows, list_conn.rows,
                                                  list_conn.state = "open"
                                                      /\ list_conn.deleted),
                                      list_conn.table, list_conn.epoch_id,
                                      list_conn.participant_id),
                     conn |-> list_conn]
    /\ list_seen' # list_seen
    /\ UNCHANGED <<list_rows, list_conn, saves>>
    /\ ListUnchanged

\* ------------------------------------------------------------ specifications
\* the background tasks of app.py: the current-epoch task (with the transition
\* path), the total-rewards task and the computations they dispatch
Next ==
    \/ AdvanceBlock \/ NewEpoch \/ Settle
    \/ Current(PollTask) \/ HistoricalSync(PollTask) \/ Calculate(PollTask)
    \/ PollTotals \/ Calculate(TotalsTask)
    \/ \E t \in BgTasks : Background(t)

Spec == Init /\ [][Next]_vars

\* the steps of get_historical_epoch_stats the transition path can take while
\* no total of 0 is stored for the old epoch
HistoricalTransition(t) ==
    \/ H_isfin(t) \/ H_latest(t) \/ H_epoch(t) \/ H_next(t) \/ H_getstats(t)
    \/ H_c_epoch(t) \/ H_c_total(t) \/ H_c_reread(t)
    \/ H_f_all(t) \/ H_f_epoch(t) \/ H_f_save(t) \/ H_f_mark(t) \/ H_f_total(t)

\* the current-epoch task alone, with the transition path
NextCurrent ==
    \/ AdvanceBlock \/ NewEpoch \/ Tick
    \/ Current(PollTask) \/ HistoricalTransition(PollTask) \/ Calculate(PollTask)

SpecCurrent == Init /\ [][NextCurrent]_vars

\* callers of get_current_epoch_stats(), with the transition path
NextServe ==
    \/ AdvanceBlock \/ NewEpoch \/ Tick \/ Elapse
    \/ \E t \in Readers : Serve(t) \/ HistoricalTransition(t) \/ Calculate(t)

SpecServe == Init /\ [][NextServe]_vars

\* API readers of historical epochs, one request at a time
NextRead ==
    \/ AdvanceBlock \/ NewEpoch
    \/ StartHistorical("r1") \/ StartHistoricalAt("r1") \/ HistoricalRead("r1")

SpecRead == Init /\ [][NextRead]_vars

\* concurrent API reads of historical epochs at the default height
NextRace ==
    \/ AdvanceBlock \/ NewEpoch \/ Tick
    \/ \E t \in Readers : StartHistorical(t) \/ HistoricalRead(t)

SpecRace == Init /\ [][NextRace]_vars

\* the total-rewards task alone, against a chain that settles epochs
NextTotals ==
    \/ AdvanceBlock \/ NewEpoch \/ Settle
    \/ PollTotals \/ Calculate(TotalsTask)

SpecTotals == Init /\ [][NextTotals]_vars

\* the participant endpoints alone: one details reader and the callers of the
\* inference store
NextDetails ==
    \/ D_start("d1")
    \/ Details("d1")
    \/ SaveInferences

SpecDetails == Init /\ [][NextDetails]_vars

\* one details reader from its first upstream call on, against a moving chain
NextDetailsRead ==
    \/ AdvanceBlock \/ NewEpoch
    \/ D_call("d1") \/ D_latest("d1") \/ HistoricalRead("d1") \/ D_stats("d1")
    \/ Details("d1")

SpecDetailsRead == Init /\ [][NextDetailsRead]_vars

\* the actions of the seven polling tasks and of the sub-task of the first,
\* against a chain whose epochs change and settle
NextTables ==
    \/ AdvanceBlock \/ NewEpoch \/ Settle
    \/ poll_current_epoch \/ _ensure_participant_caches
    \/ poll_jail_status \/ poll_node_health \/ poll_participant_rewards
    \/ poll_epoch_total_rewards
    \/ \E k \in SweepTasks : Sweep(k)

SpecTables == Init /\ [][NextTables]_vars

\* poll_warm_keys and poll_hardware_nodes alone, each the only writer of its table
NextSweeps ==
    \/ AdvanceBlock \/ NewEpoch
    \/ \E k \in SweepTasks : Sweep(k)

SpecSweeps == Init /\ [][NextSweeps]_vars

\* the inference_stats table under one writer and readers on other connections
NextBatch ==
    \/ B_connect
    \/ B_insert
    \/ B_commit
    \/ R_get_stats

SpecBatch == Init /\ [][NextBatch]_vars

\* poll_participant_rewards step by step beside poll_epoch_total_rewards, against
\* a chain whose epochs change and settle
NextRewards ==
    \/ AdvanceBlock \/ NewEpoch \/ Settle
    \/ PollRewards
    \/ poll_epoch_total_rewards

SpecRewards == Init /\ [][NextRewards]_vars

\* the hardware nodes of a ParticipantDetailsResponse for maps and registry rows
\* of any content
NextNodes ==
    \/ BuildMLNode

SpecNodes == Init /\ [][NextNodes]_vars

\* get_canonical_height of a historical epoch for upstream answers of any content
NextHeights ==
    \/ GetCanonicalHeight

SpecHeights == Init /\ [][NextHeights]_vars

\* the per-participant list tables under one writer and readers on other connections
NextLists ==
    \/ LB_connect
    \/ LB_delete
    \/ LB_insert
    \/ LB_commit
    \/ LR_lookup

SpecLists == Init /\ [][NextLists]_vars

\* the response of a fresh fetch for payloads of any content
NextResponse ==
    \/ BuildCurrentResponse

SpecResponse == Init /\ [][NextResponse]_vars

\* the computed fields of ParticipantStats for counters of any content
NextRates ==
    \/ ComputeMissedRate
    \/ ComputeInvalidationRate

SpecRates == Init /\ [][NextRates]_vars

\* the upstream client alone
NextClient ==
    \/ Construct
    \/ R_start
    \/ R_attempt

SpecClient == Init /\ [][NextClient]_vars

\* the polling tasks and lifespan's shutdown
NextLoops ==
    \/ \E t \in PollingTasks : Loop(t)
    \/ S_cancel
    \/ S_join

SpecLoops == Init /\ [][NextLoops]_vars

\* the event loop resumes every task that can run: sleeps end, awaited actions
\* end, a cancelled task is resumed; lifespan's own steps are taken once the
\* shutdown has begun
LoopFairness ==
    /\ \A t \in PollingTasks : WF_vars(Loop(t))
    /\ WF_vars(S_join)
    /\ WF_vars(life.state # "serving" /\ S_cancel)

SpecLoopsFair == SpecLoops /\ LoopFairness

\* ------------------------------------------------------------ properties
\* the invocations of get_historical_epoch_stats: API readers and the transition path
HistCallers == Readers \cup {PollTask}

\* an invocation that took the branch for an epoch other than the chain's current one
HistoricalEpochCall(f) == f.latest_index # None /\ f.latest_index # f.epoch_id

\* C1: get_historical_epoch_stats(epoch_id, None) for an epoch other than the
\* chain's current one returns a response whose height is what
\* get_canonical_height computed: effective_block_height(epoch_id + 1) - 10 when
\* the upstream answered for epoch_id + 1 (which it can only do once that epoch
\* exists), latest_epoch.next_poc_start - 10 when it did not.
C1_DefaultHeightIsCanonical ==
    \A t \in HistCallers :
        LET f == hist[t]
        IN (f.outcome = "ok" /\ f.height = None /\ HistoricalEpochCall(f)) =>
               /\ f.response.height = f.canonical_height
               /\ f.next_ok => /\ f.epoch_id + 1 <= latest_epoch
                               /\ f.response.height =
                                      effective_block_height[f.epoch_id + 1] - 10
               /\ ~f.next_ok => f.response.height = f.next_poc - 10

\* a default-height read of a past epoch returned with the next epoch's data
C1_Witness ==
    LET f == hist["r1"]
    IN /\ f.outcome = "ok" /\ f.height = None /\ HistoricalEpochCall(f)
       /\ f.next_ok
       /\ f.response.height = effective_block_height[f.epoch_id + 1] - 10

\* C2: for an epoch other than the current one, a call with a requested height
\* strictly below the epoch's effective_block_height never returns a response
\* and never writes to the cache store; it ends with InvalidHeight as soon as
\* the upstream has delivered the epoch's data (only the failure of that upstream
\* read can pre-empt it).
C2_BelowEffectiveHeightIsInvalid ==
    \A t \in HistCallers :
        LET f == hist[t]
        IN (/\ f.outcome # "none" /\ f.height # None /\ HistoricalEpochCall(f)
            /\ f.epoch_id <= latest_epoch
            /\ f.height < effective_block_height[f.epoch_id]) =>
               /\ ~f.wrote
               /\ f.outcome \in {"running", "InvalidHeight", "UpstreamUnavailable"}
               /\ f.outcome = "running" => pc[t] \in {"H_epoch", "H_next"}
               /\ f.outcome = "UpstreamUnavailable" => f.effective_height = None

\* a call below the effective height has failed with InvalidHeight
C2_Witness ==
    LET f == hist["r1"]
    IN /\ f.outcome = "InvalidHeight" /\ HistoricalEpochCall(f)
       /\ f.height < effective_block_height[f.epoch_id]
       /\ inference_stats = <<>>

\* C3: for an epoch other than the current one with canonical height C, a call
\* with requested height r that does not fail is served at min(r, C): C when
\* r >= C, r itself when E <= r < C.
C3_RequestedHeightIsClamped ==
    \A t \in HistCallers :
        LET f == hist[t]
            C == IF f.next_ok THEN effective_block_height[f.epoch_id + 1] - 10
                 ELSE f.next_poc - 10
        IN (f.target_height # None /\ f.height # None /\ HistoricalEpochCall(f)) =>
               /\ f.height >= effective_block_height[f.epoch_id]
               /\ f.target_height = IF f.height >= C THEN C ELSE f.height
               /\ f.outcome = "ok" => f.response.height = f.target_height

\* a read with a requested height above the canonical height returned, clamped
C3_Witness ==
    LET f == hist["r1"]
    IN /\ f.outcome = "ok" /\ f.height # None /\ HistoricalEpochCall(f)
       /\ f.height > f.canonical_height
       /\ f.response.height = f.canonical_height

\* C4: two invocations get_canonical_height(epoch_id, None) that return, made
\* for the same epoch below the current one after its successor began, return
\* the same height.
C4_CanonicalHeightIsStable ==
    \A t1, t2 \in Readers :
        LET f == hist[t1]
            g == hist[t2]
        IN (/\ f.outcome = "ok" /\ g.outcome = "ok"
            /\ f.epoch_id = g.epoch_id
            /\ f.height = None /\ g.height = None
            /\ HistoricalEpochCall(f) /\ HistoricalEpochCall(g)
            /\ f.latest_index > f.epoch_id /\ g.latest_index > g.epoch_id) =>
               f.canonical_height = g.canonical_height

\* C5: when get_current_epoch_stats sees an epoch id greater than the recorded
\* current_epoch_id and the old epoch is not marked finished, the old epoch is
\* marked finished by the time that invocation returns.  (Stated for the
\* invocations in which no upstream call failed.)
C5_TransitionMarksOldEpochFinished ==
    LET c == cur[PollTask]
    IN (/\ pc[PollTask] = "idle" /\ c.outcome = "ok" /\ c.transition
        /\ ~c.failed
        /\ hist[PollTask].outcome = "ok" /\ ~hist[PollTask].failed
        /\ calc[PollTask].result # "failed") =>
           is_epoch_finished(c.old_epoch_id)

\* get_historical_epoch_stats returns its response in this step
HistReturns(t) == hist[t].outcome = "running" /\ hist'[t].outcome = "ok"

\* C6: a call get_historical_epoch_stats(e, calculate_rewards_sync=True) never
\* returns having merely created a background task for the total rewards of e.
\* (Stated for the calls in which no upstream call failed.)
C6_SyncCallComputesInline ==
    [][(/\ HistReturns(PollTask) /\ hist[PollTask].calculate_rewards_sync
        /\ ~hist[PollTask].failed) =>
           dispatched' = dispatched]_vars

\* C7: mark_epoch_finished is executed at most once per epoch.
C7_MarkedFinishedOnce == \A e \in Epochs : mark_count[e] <= 1

\* C8: the inference_stats rows of an epoch that is marked finished are never
\* modified, replaced or deleted.
C8_FinishedRowsImmutable ==
    [][\A k \in DOMAIN inference_stats :
           is_epoch_finished(k[1]) =>
               /\ k \in DOMAIN inference_stats'
               /\ inference_stats'[k] = inference_stats[k]]_vars

\* C9: epoch_total_rewards is written only by the save statement of
\* _calculate_and_cache_total_rewards, and that statement is never executed by
\* a computation whose successful fetches (at least one) sum to 0.
C9_ZeroSumNeverCached ==
    [][/\ \A t \in Threads :
              (pc[t] = "C_savetotal" /\ pc'[t] # "C_savetotal") =>
                  ~(calc[t].fetched_count > 0 /\ calc[t].total_ugnk = 0)
       /\ \A e \in Epochs :
              (epoch_total_rewards'[e] # epoch_total_rewards[e]
                   /\ epoch_total_rewards'[e] # None) =>
                  \E t \in Threads :
                      /\ pc[t] = "C_savetotal" /\ pc'[t] # "C_savetotal"
                      /\ calc[t].epoch_id = e
                      /\ epoch_total_rewards'[e] = calc[t].total_ugnk \div 1000000000]_vars

\* a computation fetched at least one summary, summed 0 and ended without a row
C9_Witness ==
    LET f == calc[TotalsTask]
    IN /\ f.result = "skipped" /\ f.fetched_count > 0 /\ f.total_ugnk = 0
       /\ epoch_total_rewards[f.epoch_id] = None

\* C10: after a completed poll_epoch_total_rewards tick no epoch of the polled
\* window (current-1 .. current-5) has a stored total of 0.
C10_NoZeroTotalAfterPoll ==
    (pc[TotalsTask] = "idle" /\ tot.outcome = "ok") =>
        \A o \in 1..PollWindow :
            tot.current_epoch_id - o > 0 =>
                epoch_total_rewards[tot.current_epoch_id - o] # 0

\* the sum of rewarded_coins the chain holds for the first n participants of e
RECURSIVE SumRewardedCoins(_, _)
SumRewardedCoins(e, n) ==
    IF n = 0 THEN 0
    ELSE SumRewardedCoins(e, n - 1) + epoch_performance_summary(e, Participants[n])

\* _calculate_and_cache_total_rewards executes its save statement in this step
SavesTotal(t) == pc[t] = "C_savetotal" /\ pc'[t] # "C_savetotal"

\* C11: whenever _calculate_and_cache_total_rewards stores a total for epoch e,
\* the stored value is floor(S / 1_000_000_000), S being the sum of
\* rewarded_coins of every active participant of e.
C11_TotalIsSumOverAllParticipants ==
    [][\A t \in Threads :
           SavesTotal(t) =>
               epoch_total_rewards'[calc[t].epoch_id] =
                   SumRewardedCoins(calc[t].epoch_id, Len(Participants)) \div 1000000000]_vars

\* the fresh fetch of get_current_epoch_stats ends in its except clause in this step
FetchFails(t) == cur[t].outcome = "running" /\ cur'[t].outcome \notin {"running", "ok"}

\* C12: a fresh fetch of get_current_epoch_stats that fails returns the published
\* current_epoch_data as it is when there is one and re-raises when there is
\* none; it leaves current_epoch_data, current_epoch_id and last_fetch_time
\* alone, which only a fetch that succeeds replaces.
C12_FailedFetchFallsBack ==
    [][/\ \A t \in Threads :
              FetchFails(t) =>
                  /\ UNCHANGED svcVars
                  /\ IF current_epoch_data # NoResponse
                     THEN /\ cur'[t].outcome = "cached"
                          /\ cur'[t].response = current_epoch_data
                     ELSE cur'[t].outcome = "raised"
       /\ svcVars' # svcVars =>
              \E t \in Threads : cur[t].outcome = "running" /\ cur'[t].outcome = "ok"]_vars

\* a fetch failed after a response was published and returned that response
C12_Witness ==
    LET c == cur[PollTask]
    IN /\ c.failed /\ c.outcome = "cached"
       /\ current_epoch_data # NoResponse
       /\ c.response = current_epoch_data
       /\ pc[PollTask] = "idle"

\* C13: a call get_historical_epoch_stats(epoch_id) for a past epoch whose rows
\* are cached at its canonical height returns them, whatever the upstream does.
C13_CachedStatsSurviveOutage ==
    \A t \in Readers :
        LET f == hist[t]
        IN (/\ f.outcome \notin {"none", "running"} /\ f.height = None
            /\ f.epoch_id < latest_epoch
            /\ get_stats(f.epoch_id, effective_block_height[f.epoch_id + 1] - 10) # NoRows) =>
               f.outcome = "ok"

\* C14: once the inline authz_grants fetch of get_participant_details has answered
\* with an empty grant list for an (epoch_id, participant_id), no later
\* get_participant_details for the same key calls authz_grants again: a call
\* never stands at the authz_grants fetch for a key whose fetch answered empty.
C14_EmptyGrantsAreRemembered ==
    \A t \in DetailReaders :
        pc[t] = "D_authz" => <<det[t].epoch_id, det[t].participant_id>> \notin authz_empty

\* C15: save_participant_inferences_batch(e, p, []) succeeds and leaves exactly
\* the sentinel row for (e, p), after which get_participant_inferences(e, p)
\* returns the empty list.
C15_EmptyListLeavesSentinel ==
    (inf_call.outcome # "none" /\ inf_call.inferences = {}) =>
        /\ inf_call.outcome = "saved"
        /\ participant_inferences[<<inf_call.epoch_id, inf_call.participant_id>>] = {SentinelRow}
        /\ get_participant_inferences(inf_call.epoch_id, inf_call.participant_id) = KeyList({})

\* the indexes of the rows of batch b among rows
BatchIndexes(rows, b) == {r.participant_index : r \in {x \in rows : x.batch = b}}

\* C16: a get_stats(epoch_id, height) that runs while or after a
\* save_stats_batch of the same key observes all rows of that batch or none of
\* them, never a strict subset; and no row of a batch that failed midway is
\* readable.
C16_BatchVisibleAtomically ==
    /\ (seen.batch # 0 /\ seen.epoch_id = conn.epoch_id /\ seen.batch = conn.batch) =>
          \/ BatchIndexes(seen.rows, seen.batch) = {}
          \/ BatchIndexes(seen.rows, seen.batch) = Range(seen.participants_stats)
    /\ (seen.batch # 0 /\ seen.state = "open") => BatchIndexes(seen.rows, seen.batch) = {}
    /\ conn.state = "raised" => BatchIndexes(ReadableRows, conn.batch) = {}
    /\ conn.state = "committed" =>
          BatchIndexes(get_stats_rows(conn.epoch_id, conn.height), conn.batch)
              = Range(conn.participants_stats)

\* a get_stats of the batch's key ran between two INSERTs of a two-row batch
C16_Witness ==
    /\ seen.state = "open"
    /\ seen.inserted = 1
    /\ Len(seen.participants_stats) = 2
    /\ seen.epoch_id = conn.epoch_id
    /\ seen.batch = conn.batch
    /\ conn.state = "committed"

\* C17: the participants of the response of a fresh get_current_epoch_stats are
\* the active participants in the order of the epoch payload's
\* active_participants.participants list, with is_current = true and epoch_id
\* equal to the payload's epoch_group_id (stated for payloads in which every
\* active participant is listed by the all-participants payload and parses).
C17_ResponseInEpochPayloadOrder ==
    (/\ built.epoch_id # None
     /\ built.malformed = {}
     /\ Range(built.epoch_participants) \subseteq Range(built.participant)) =>
        /\ built.participants = built.epoch_participants
        /\ built.is_current
        /\ built.epoch_id = built.epoch_group_id

\* rate (in units of 0.0001) is x / y to 4 decimals: no multiple of 0.0001 is
\* nearer to x / y
ToFourDecimals(value, x, y) ==
    /\ 2 * (value * y - RateScale * x) <= y
    /\ 2 * (RateScale * x - value * y) <= y

\* C18: for non-negative integer counters missed_rate lies in [0, 1], equals
\* missed_requests / (missed_requests + inference_count) to 4 decimals, and is 0
\* when missed_requests + inference_count = 0; counters 5 and 5 give 0.5.
C18_MissedRateInUnitInterval ==
    rate.field = "missed_rate" =>
        /\ 0 <= rate.value /\ rate.value <= RateScale
        /\ rate.numerator + rate.inference_count = 0 => rate.value = 0
        /\ rate.numerator + rate.inference_count > 0 =>
              ToFourDecimals(rate.value, rate.numerator, rate.numerator + rate.inference_count)
        /\ (rate.numerator = 5 /\ rate.inference_count = 5) => rate.value = 5000

\* missed_rate was read with a quotient that is not a multiple of 0.0001
C18_Witness ==
    /\ rate.field = "missed_rate"
    /\ rate.numerator = 1
    /\ rate.inference_count = 2
    /\ rate.value = 3333

C20_FailoverIsOneCycle ==
    LET n == Len(base_urls)
        attempts == request.attempts
        failures == Cardinality({i \in 1..Len(attempts) : ~attempts[i].ok})
    IN  request.state # "none" =>
          /\ Len(attempts) <= n
          /\ \A i \in 1..Len(attempts) :
                /\ attempts[i].url = base_urls[((request.first + i - 1) % n) + 1]
                /\ i < Len(attempts) => ~attempts[i].ok
                /\ \A j \in 1..Len(attempts) : attempts[i].url = attempts[j].url => i = j
          /\ current_url_index = (request.first + failures) % n
          /\ request.state = "ok" <=> (attempts # <<>> /\ attempts[Len(attempts)].ok)
          /\ request.state = "UpstreamUnavailable" <=> failures = n

\* a call on a client that had rotated before failed on every one of three
\* URLs, by a transport error and by a non-2xx status
C20_Witness ==
    /\ Len(base_urls) = 3
    /\ request.state = "UpstreamUnavailable"
    /\ request.first = 1
    /\ Len(request.attempts) = 3
    /\ request.attempts[1].result = "error"
    /\ request.attempts[2].result = "non-2xx"

\* C21: current_url_index is 0 after construction, stays within 0..N-1, changes
\* only by +1 modulo N, is back at the URL a call started at when the call has
\* rotated N times, and is left unchanged by a successful attempt.
C21_UrlIndexRotates ==
    [][/\ (base_urls = <<>> /\ base_urls' # <<>>) => current_url_index' = 0
       /\ base_urls' # <<>> =>
             (current_url_index' >= 0 /\ current_url_index' < Len(base_urls'))
       /\ base_urls # <<>> =>
             \/ current_url_index' = current_url_index
             \/ current_url_index' = (current_url_index + 1) % Len(base_urls)
       /\ (request.state = "running" /\ request'.state = "ok") =>
             current_url_index' = current_url_index
       /\ request'.state = "UpstreamUnavailable" => current_url_index' = request'.first]_vars

\* a call that started at the last of three URLs failed there and succeeded at
\* the first one: the index has wrapped
C21_Witness ==
    /\ Len(base_urls) = 3
    /\ request.first = 2
    /\ request.state = "ok"
    /\ Len(request.attempts) = 2
    /\ current_url_index = 0

\* C22: in each of the seven polling loops an exception raised by the action is
\* caught, the loop sleeps its interval and runs the action again; a task ends
\* only when it was cancelled, whatever fails in it or in another loop; under
\* fairness every loop performs its action again and again until it is cancelled.
C22_LoopsSurviveFailures ==
    /\ [](\A t \in PollingTasks : loop[t] = "done" => t \in cancelled)
    /\ [][\A t \in PollingTasks :
             (loop[t] = "action" /\ loop'[t] # "action") =>
                 \/ loop'[t] \in {"sleep", "sleep_logged"}
                 \/ t \in cancelled /\ loop'[t] = "done"]_vars
    /\ \A t \in PollingTasks : []<>(loop[t] = "action" \/ t \in cancelled)

\* one loop sleeps after an exception it caught while the other loops go on,
\* one of them inside its action
C22_Witness ==
    /\ cancelled = {}
    /\ loop["poll_rewards"] = "sleep_logged"
    /\ loop["poll_warm_keys"] = "action"
    /\ \A t \in PollingTasks : loop[t] # "done"

\* C23: once the shutdown has begun, every polling task is cancelled and ends,
\* in whatever state the cancellation finds it (in its initial delay, in its
\* interval sleep, inside its action), and lifespan's shutdown sequence
\* completes.
C23_ShutdownTerminatesLoops ==
    /\ (life.state # "serving") ~>
          (life.state = "stopped" /\ \A t \in PollingTasks : loop[t] = "done")
    /\ [](life.state = "stopped" => \A t \in PollingTasks : loop[t] = "done")

\* the cancellation of a task arrives while the task is inside its action, with
\* tasks still to be cancelled in their initial delay and in their interval sleep
C23_Witness ==
    /\ life = [state |-> "awaiting", i |-> 2]
    /\ loop["poll_jail_status"] = "action"
    /\ "poll_jail_status" \in cancelled
    /\ loop["poll_node_health"] = "sleep"
    /\ loop["poll_rewards"] = "delay"

\* a finished get_participant_details call whose get_historical_epoch_stats raised kind
DetailsRaisedInside(f, kind) ==
    /\ f.epoch_id # None
    /\ f.outcome # "running"
    /\ f.caught = kind

\* C24: get_participant_details for a historical epoch with a requested height
\* below the epoch's effective height surfaces InvalidHeight to its caller: the
\* call does not end with the None (not found) result.
C24_InvalidHeightReachesCaller ==
    \A t \in DetailReaders :
        DetailsRaisedInside(det[t], "InvalidHeight") => det[t].outcome = "InvalidHeight"

\* the step is a statement of the transition path: get_historical_epoch_stats
\* run by the current-epoch task from _mark_epoch_finished_if_needed
TransitionPathStep == pc'[PollTask] # pc[PollTask] /\ hist[PollTask].calculate_rewards_sync

\* C25: epoch_status is written only on the synchronous transition path started
\* by _mark_epoch_finished_if_needed from the current-epoch task; no API read
\* path writes it.
C25_OnlyTransitionWritesStatus ==
    [][epoch_status' # epoch_status => TransitionPathStep]_vars

\* C26: every epoch marked finished in epoch_status is strictly smaller than the
\* chain's current epoch id: the chain's current epoch is never marked finished.
C26_FinishedEpochsAreBelowCurrent ==
    \A e \in Epochs : is_epoch_finished(e) => e < latest_epoch

\* a get_historical_epoch_stats call by t returns from the fresh-fetch branch
FreshReturns(t) == HistReturns(t) /\ hist[t].branch = "fresh"

\* C27: a get_historical_epoch_stats call with an explicit requested height
\* never writes epoch_status; a call with height None that returns from the
\* fresh-fetch branch and found the epoch not finished has marked it finished at
\* the height it served, which is the canonical height.
C27_MarkOnlyAtDefaultHeight ==
    /\ [][\A t \in Readers :
             (pc[t] # "idle" /\ pc'[t] # pc[t] /\ hist[t].height # None) =>
                 epoch_status' = epoch_status]_vars
    /\ [][\A t \in Readers :
             LET f == hist[t]
             IN (FreshReturns(t) /\ f.height = None /\ ~f.is_finished) =>
                    /\ epoch_status[f.epoch_id] = f.target_height
                    /\ HistoricalEpochCall(f) => f.target_height = f.canonical_height]_vars

\* a default-height fresh fetch has returned with its epoch marked at the
\* canonical height, while an epoch fetched at an explicit height has rows and
\* no mark
C27_Witness ==
    LET f == hist["r1"]
    IN /\ f.outcome = "ok" /\ f.branch = "fresh" /\ f.height = None /\ ~f.is_finished
       /\ HistoricalEpochCall(f)
       /\ epoch_status[f.epoch_id] = f.canonical_height
       /\ \E k \in DOMAIN inference_stats :
             k[1] # f.epoch_id /\ ~is_epoch_finished(k[1])

\* the fresh fetch of t goes from one of its statements to the next
FetchContinues(t) == cur[t].outcome = "running" /\ cur'[t].outcome = "running"

\* the fresh fetch of t executes save_stats_batch and publishes its response
FetchSaves(t) == pc[t] = "G_save" /\ pc'[t] # "G_save"

\* the keys of inference_stats whose rows a step changes
WrittenKeys ==
    {k \in DOMAIN inference_stats' :
        k \notin DOMAIN inference_stats \/ inference_stats'[k] # inference_stats[k]}

\* C28: within one get_current_epoch_stats invocation the chain height is read
\* before the epoch and the participants; that height is the one passed to
\* get_all_participants, the key of the stats batch the invocation persists and
\* the height of the response it publishes and returns.
C28_SingleHeightPerFetch ==
    [][LET c == cur[PollTask]
           d == cur'[PollTask]
       IN  /\ (FetchContinues(PollTask) /\ d.height # c.height) =>
                  /\ c.height = None /\ c.epoch_id = None /\ c.all_height = None
                  /\ d.height = chain_height
           /\ (FetchContinues(PollTask) /\ d.epoch_id # c.epoch_id) =>
                  c.height # None /\ c.all_height = None
           /\ (FetchContinues(PollTask) /\ d.all_height # c.all_height) =>
                  c.epoch_id # None /\ d.all_height = c.height
           /\ FetchSaves(PollTask) =>
                  /\ c.all_height = c.height
                  /\ <<c.epoch_id, c.height>> \in DOMAIN inference_stats'
                  /\ WrittenKeys \subseteq {<<c.epoch_id, c.height>>}
                  /\ current_epoch_data'.height = c.height
                  /\ d.response.height = c.height]_vars

\* a fetch has saved and published under the height it captured although the
\* chain moved on while it ran
C28_Witness ==
    LET c == cur[PollTask]
    IN /\ c.outcome = "ok" /\ pc[PollTask] = "idle"
       /\ c.height # chain_height
       /\ c.all_height = c.height
       /\ <<c.epoch_id, c.height>> \in DOMAIN inference_stats
       /\ current_epoch_data.height = c.height

\* C29: the seven polling tasks write pairwise disjoint sets of tables: no table
\* has been written by two different tasks, the writes of a task's sub-tasks
\* and inline fills counted as its own.
C29_TasksWriteDisjointTables ==
    \A x \in Tables : Cardinality(writers[x]) <= 1

\* C30: an action of a polling task that is cancelled or fails midway leaves the
\* table the task writes exactly as it was when the action started.
C30_AbandonedActionLeavesCache ==
    \A k \in SweepTasks :
        sweep[k].ended \in {"cancelled", "failed"} => SweepTable(k) = sweep[k].before

\* the rows a save_*_batch call inserts when all its INSERTs are accepted
NewRows(c) == {ListRow(c.table, c.epoch_id, c.participant_id, c.items[i], c.save) :
                  i \in 1..Len(c.items)}

\* every (table, epoch, participant) but the key of connection c
OtherKeys(c) ==
    {k \in ListTables \X Epochs \X ParticipantIds :
        k # <<c.table, c.epoch_id, c.participant_id>>}

ListSeenWholeSet ==
    /\ list_seen.conn.state # "closed" =>
          \/ list_seen.rows = list_seen.conn.previous
          \/ list_seen.rows = NewRows(list_seen.conn)
    /\ list_seen.conn.state \in {"open", "raised"} => list_seen.rows = list_seen.conn.previous
    /\ list_conn.state = "committed" =>
          KeyRows(list_rows, list_conn.table, list_conn.epoch_id, list_conn.participant_id)
              = NewRows(list_conn)
    /\ list_conn.state \in {"open", "raised"} =>
          KeyRows(list_rows, list_conn.table, list_conn.epoch_id, list_conn.participant_id)
              = list_conn.previous

OtherKeysUntouched ==
    \A k \in OtherKeys(list_conn') :
        KeyRows(list_rows', k[1], k[2], k[3]) = KeyRows(list_rows, k[1], k[2], k[3])

\* C31: save_warm_keys_batch, save_hardware_nodes_batch and
\* save_participant_inferences_batch for (e, p) with new set L delete and insert in
\* one transaction: a concurrent lookup for (e, p) observes the complete previous
\* set or exactly L, never the empty intermediate state or a mixture; after the
\* commit the rows of (e, p) are exactly L, no row of the previous set survives;
\* and the rows of every other (e', p') are unchanged.
C31_ListReplacedAtomically ==
    /\ []ListSeenWholeSet
    /\ [][OtherKeysUntouched]_vars

\* a lookup ran after the DELETE and the first of two INSERTs of a call that
\* replaced a non-empty set and committed, while another key holds rows
C31_Witness ==
    /\ list_seen.conn.state = "open"
    /\ list_seen.conn.save = list_conn.save
    /\ list_seen.conn.deleted
    /\ Len(list_seen.conn.todo) = 1
    /\ Len(list_seen.conn.items) = 2
    /\ list_seen.conn.previous # {}
    /\ list_conn.state = "committed"

\* the keys of the window of a poll_participant_rewards that read current_epoch
RewardWindowKeys(current_epoch) ==
    {k \in Epochs \X ParticipantIds :
        k[1] <= current_epoch - 1 /\ k[1] >= current_epoch - RewardWindow}

RequestsOnlyUnclaimed ==
    /\ rew.requested \cap rew.cached_claimed = {}
    /\ rew.requested \subseteq RewardWindowKeys(rew.current_epoch)
    /\ \A r \in rew.rewards_to_save : <<r.epoch_id, r.participant_id>> \in rew.requested

ClaimedRowsKept ==
    rew' # rew =>
        \A k \in rew.cached_claimed : participant_rewards'[k] = participant_rewards[k]

\* C32: in poll_participant_rewards, for every (epoch, participant) whose cached
\* reward row reads claimed = true no epoch_performance_summary request is issued
\* and no step of the action rewrites the row; requests are issued only for keys
\* of the window current-1 .. current-6 whose cached reward is missing or
\* unclaimed.
C32_ClaimedRewardsNotRefreshed ==
    /\ []RequestsOnlyUnclaimed
    /\ [][ClaimedRowsKept]_vars

\* an action that skipped a claimed row, requested another key and saved it
C32_Witness ==
    /\ rew.state = "done"
    /\ rew.cached_claimed # {}
    /\ rew.requested # {}
    /\ \E r \in rew.rewards_to_save :
          /\ participant_rewards[<<r.epoch_id, r.participant_id>>].claimed = r.claimed
          /\ participant_rewards[<<r.epoch_id, r.participant_id>>] # NoReward

\* the age at call time of the response that was published then, counted from
\* the moment it was cached
AgeAtCall(t) == cur[t].current_time - cur[t].published.cached_at

\* C33: a get_current_epoch_stats(reload=False) call made while a published
\* response exists and is less than 300 seconds old returns that same response
\* without an upstream call or a cache-store write; a call with no published
\* response, or with one 300 seconds old or older, attempts a fresh fetch (so
\* does every call with reload=True).
C33_TtlGatesCurrentCache ==
    \A t \in Readers :
        (cur[t].outcome # "none" /\ ~cur[t].reload) =>
            IF cur[t].published # NoResponse /\ AgeAtCall(t) < CacheTtl
            THEN cur[t].outcome = "served" /\ cur[t].response = cur[t].published
            ELSE cur[t].outcome # "served"

PublishedNeverOlder ==
    /\ current_epoch_id # None => current_epoch_id' >= current_epoch_id
    /\ current_epoch_data # NoResponse =>
          current_epoch_data'.epoch_id >= current_epoch_data.epoch_id
    /\ last_fetch_time # None => last_fetch_time' >= last_fetch_time

\* C35: across any interleaving of concurrent get_current_epoch_stats
\* invocations, current_epoch_id and the epoch_id of the published
\* current_epoch_data never decrease, and last_fetch_time never decreases.
C35_PublishedEpochNeverGoesBack == [][PublishedNeverOlder]_vars

\* C34: for every hardware node returned by get_participant_details, if the
\* node's local_id is a key of the epoch participant's ml_nodes_map then its
\* poc_weight equals the map value for that key (for every integer value,
\* including 0), and only when the key is absent does it equal the
\* hardware-registry value.
C34_PocWeightFromMapWhenPresent ==
    ml_node # NoNode =>
        ml_node.poc_weight = IF ml_node.local_id \in DOMAIN ml_node.ml_nodes_map
                             THEN ml_node.ml_nodes_map[ml_node.local_id]
                             ELSE ml_node.registry

\* C36: every inference_stats row (epoch_id, height) written by
\* get_current_epoch_stats has height >= effective_block_height of epoch_id, even
\* when the chain moves to a new epoch between the height read and the
\* current_epoch_participants read of the same invocation.
C36_CurrentStatsInsideEpoch ==
    [][FetchSaves(PollTask) =>
          \A k \in WrittenKeys : k[2] >= effective_block_height[k[1]]]_vars

\* C37: once epoch_total_rewards holds a positive value for an epoch, no later
\* operation deletes it or replaces it with a different value, whatever
\* total-rewards computations historical reads and poll_epoch_total_rewards
\* dispatched before the first of them finished.
C37_PositiveTotalIsStable ==
    [][\A e \in Epochs :
          (epoch_total_rewards[e] # None /\ epoch_total_rewards[e] > 0) =>
              epoch_total_rewards'[e] = epoch_total_rewards[e]]_vars

\* C38: once participant_rewards holds claimed = true for (epoch_id,
\* participant_id), no later operation changes that row to claimed = false,
\* whatever upstream returns afterwards.
C38_ClaimedNeverReverts ==
    [][\A k \in Epochs \X ParticipantIds :
          participant_rewards[k].claimed => participant_rewards'[k].claimed]_vars

\* C39: every InferenceResponse returned by get_historical_epoch_stats has
\* total_assigned_rewards_gnk absent (null) or strictly positive, on the
\* cached-stats branch (sync and async compute) and on the fresh-fetch branch,
\* whatever value epoch_total_rewards held when the call started.
C39_NoZeroTotalInResponse ==
    \A t \in Threads :
        hist[t].outcome = "ok" =>
            \/ hist[t].response.total_assigned_rewards_gnk = None
            \/ hist[t].response.total_assigned_rewards_gnk > 0

\* C40: for a historical epoch, every height returned by
\* get_canonical_height (with requested_height None, clamped, or passed through)
\* is greater than or equal to the epoch's effective_block_height, for all values
\* of the next epoch's effective height and of next_poc_start.
C40_ResolvedHeightInsideEpoch ==
    resolved.outcome = "ok" => resolved.height >= resolved.effective_height

====
